---- MODULE Spec2Model ----
(***************************************************************************)
(* Verification model of the testbench core in src/tb/cocotb_utils.py:     *)
(* the SVStruct codec, the valid/ready Producer and Consumer agents        *)
(* clocked by the test clock, and the TBTask / AbstractTB life cycle.      *)
(*                                                                         *)
(* Two state machines share the module.  SpecVR is one valid/ready         *)
(* interface driven by a ValRdyProducer and sampled by a ValRdyConsumer.   *)
(* SpecTB is the AbstractTB fixture: registration, __aenter__, the         *)
(* protected body and __aexit__ with the recursive TBTask.start/stop.      *)
(***************************************************************************)
EXTENDS Integers, Sequences, FiniteSets, TLC

VARIABLES
    \* ---- valid/ready interface (ValRdyInterface, ValRdyDriver) ----
    clk,          \* level of the clock (FakeClock.state / the clk signal)
    val,          \* interface.val as read by .value
    rdy,          \* interface.rdy as read by .value
    data,         \* interface.data: the packed bit vector, MSB first
    pend,         \* writes made with `.value =`, not yet applied
    pq,           \* ValRdyProducer.queue
    cq,           \* ValRdyConsumer.queue
    penabled,     \* ValRdyProducer.enabled
    cenabled,     \* ValRdyConsumer.enabled
    pscopes,      \* old_enabled of the active disabled() scopes, Producer
    cscopes,      \* old_enabled of the active disabled() scopes, Consumer
    ppc,          \* position of the Producer's _task_coroutine
    cpc,          \* position of the Consumer's _task_coroutine
    rdy_is_ack,   \* interface.rdy_is_ack
    sent,         \* history: every value passed to enqueue_values
    got,          \* history: every value the Consumer put in its queue
    cSawFall,     \* history: the Consumer ran a falling-edge step since
                  \* its enabled flag last became false
    \* ---- fixture life cycle (AbstractTB, TBTask) ----
    tasks,        \* AbstractTB.tasks: the registered ids, insertion order
    tbpc,         \* position of the test using the fixture
    stack,        \* call stack of TBTask.start / TBTask.stop frames
    cursor,       \* index in the list __aenter__ / __stop_tasks iterates
    running,      \* tasks whose body was started with cocotb.start
    ended,        \* tasks whose body has ended (joined or killed)
    setup_exceptions,    \* __aenter__'s list
    cleanup_exceptions,  \* __stop_tasks' list
    exc_value,    \* the exception of the protected body, if any
    result,       \* what __aenter__ / __aexit__ raised or returned
    startLog,     \* history: per top-level id, bodies started, in order
    stopLog,      \* history: stop() events of the tasks, in order
    stopRet,      \* history: per top-level id, what its stop() returned
    \* ---- test code reading the Consumer (dequeue_value, dequeue_values) ----
    deq,          \* history: every value dequeue_value returned
    gen,          \* the dequeue_values generator in use: its n, its count
    \* ---- test code using the SVStruct codec ----
    cd,           \* the codec call at hand: its arguments and its result
    \* ---- the ValRdyMonitor of each agent ----
    mon,          \* per agent: position of its Monitor's body, what it logged
    \* ---- the clock's body, the clock attributes, the edge helper ----
    fc,           \* FakeClock: its body's position and locals, the edges emitted
    clock_of,     \* per task that needs a clock: its clock attribute
    hold          \* the RisingEdgesHoldingAssertion call at hand

vrVars == <<clk, val, rdy, data, pend, pq, cq, penabled, cenabled, pscopes,
            cscopes, ppc, cpc, rdy_is_ack, sent, got, cSawFall>>

tbVars == <<tasks, tbpc, stack, cursor, running, ended, setup_exceptions,
            cleanup_exceptions, exc_value, result, startLog, stopLog, stopRet>>

dqVars == <<deq, gen>>

cdVars == <<cd>>

monVars == <<mon>>

auxVars == <<fc, clock_of, hold>>

vars == <<vrVars, tbVars, dqVars, cdVars, monVars, auxVars>>

----------------------------------------------------------------------------
(* Bounds of the model.                                                    *)

MaxEdges == 4      \* edges a FakeClock emits in one run
MaxCount == 3      \* the count a RisingEdgesHoldingAssertion is built with
MaxEnq == 3        \* values passed to enqueue_values in one run
MaxScopes == 2     \* disabled() scopes open at once on one agent
MaxTasks == 3      \* top-level tasks registered besides the clock
MaxN == 2          \* largest n passed to dequeue_values

----------------------------------------------------------------------------
(* Generic helpers.                                                        *)

IsPrefix(s, t) == Len(s) <= Len(t) /\ SubSeq(t, 1, Len(s)) = s

RemoveAt(s, i) == SubSeq(s, 1, i - 1) \o SubSeq(s, i + 1, Len(s))

Range(s) == {s[i] : i \in DOMAIN s}

Reverse(s) == [i \in 1..Len(s) |-> s[Len(s) + 1 - i]]

----------------------------------------------------------------------------
(* SVStruct codec.  A schema is a leaf of `bits` bits (CheckedLogicArray)  *)
(* or a struct with an ordered list of fields; a value mirrors the schema: *)
(* an integer for a leaf, a tuple of field values for a struct.  A         *)
(* LogicArray with range n-1 downto 0 is a sequence of bits whose first    *)
(* element is bit n-1.                                                     *)

Leaf(n) == [kind |-> "leaf", bits |-> n, fields |-> <<>>]
Struct(fs) == [kind |-> "struct", bits |-> 0, fields |-> fs]

\* A scaled-down Message: meta (tag, address) and data.
MessageMetadata == Struct(<<Leaf(1), Leaf(1)>>)
Message == Struct(<<MessageMetadata, Leaf(2)>>)

RECURSIVE bits(_)
bits(cls) ==
    IF cls.kind = "leaf" THEN cls.bits
    ELSE LET F[i \in 0..Len(cls.fields)] ==
                 IF i = 0 THEN 0 ELSE F[i - 1] + bits(cls.fields[i])
         IN F[Len(cls.fields)]

\* LogicArray(value, Range(n-1, 'downto', 0)) of an unsigned integer.
RECURSIVE LogicArray(_, _)
LogicArray(value, n) ==
    IF n = 0 THEN <<>>
    ELSE LogicArray(value \div 2, n - 1) \o <<value % 2>>

\* LogicArray.integer
RECURSIVE integer(_)
integer(raw) ==
    IF raw = <<>> THEN 0
    ELSE 2 * integer(SubSeq(raw, 1, Len(raw) - 1)) + raw[Len(raw)]

\* raw[msb:lsb] of a LogicArray with range Len(raw)-1 downto 0.
Slice(raw, msb, lsb) == SubSeq(raw, Len(raw) - msb, Len(raw) - lsb)

RECURSIVE into_logicarray(_, _)
into_logicarray(cls, v) ==
    IF cls.kind = "leaf" THEN LogicArray(v, cls.bits)
    ELSE LET F[i \in 0..Len(cls.fields)] ==
                 IF i = 0 THEN <<>>
                 ELSE F[i - 1] \o into_logicarray(cls.fields[i], v[i])
         IN F[Len(cls.fields)]

\* The bits of the fields declared before field i.
BitsBefore(cls, i) ==
    LET F[k \in 0..Len(cls.fields)] ==
            IF k = 0 THEN 0 ELSE F[k - 1] + bits(cls.fields[k])
    IN F[i - 1]

\* The offsets of a decoder that walks the fields in declaration order.
FieldOffsetForward(cls, i) == BitsBefore(cls, i)

\* Offset of field i when the fields are walked in reversed order.
RECURSIVE FieldOffset(_, _)
FieldOffset(cls, i) ==
    IF i = Len(cls.fields) THEN 0
    ELSE FieldOffset(cls, i + 1) + bits(cls.fields[i + 1])

RECURSIVE from_logicarray(_, _)
from_logicarray(cls, raw) ==
    IF cls.kind = "leaf" THEN integer(raw)
    ELSE [i \in 1..Len(cls.fields) |->
             LET off == FieldOffset(cls, i)
                 fb  == bits(cls.fields[i])
             IN from_logicarray(cls.fields[i], Slice(raw, off + fb - 1, off))]

RECURSIVE zeroed(_)
zeroed(cls) ==
    IF cls.kind = "leaf" THEN 0
    ELSE [i \in 1..Len(cls.fields) |-> zeroed(cls.fields[i])]

\* The packed path of write_to_signal / from_signal.
write_to_signal(cls, v) == into_logicarray(cls, v)
from_signal(cls, signal) == from_logicarray(cls, signal)

\* The agents of the interface; each owns one ValRdyMonitor.
Agents == {"producer", "consumer"}

\* No Monitor is followed.
NoMonitors == [o \in Agents |-> [pc |-> "off", log |-> <<>>]]

\* No FakeClock body is followed.
NoClock == [pc |-> "off"]

\* No RisingEdgesHoldingAssertion call is at hand.
NoHold == [pc |-> "none"]

\* No codec call is at hand.
NoCodec == [pc |-> "none"]

\* The messages the test code sends.
Values == { <<<<0, 1>>, 2>>, <<<<1, 0>>, 1>> }

----------------------------------------------------------------------------
(* Signals.  A write made with `.value =` is applied by the simulator when *)
(* the time step ends; until then reads return the old value.              *)

NoWrites == [k \in {} |-> 0]

Write(p, k, v) == [x \in DOMAIN p \cup {k} |-> IF x = k THEN v ELSE p[x]]

Applied(p, k, old) == IF k \in DOMAIN p THEN p[k] ELSE old

\* The coroutine positions from which a coroutine runs in the current
\* time step: the clock's timer fires only after they have all run.
Runnable == {"setup", "settle", "at_rise", "at_fall"}

\* TBTask.__stop_event.is_set() of a task: its stop() has been called.
stop_is_set(t) == <<"begin", t>> \in Range(stopLog)

\* The test body runs inside `async with`: every agent's start() returned.
AgentsReady == ppc \notin {"setup", "settle"} /\ cpc \notin {"setup", "settle"}

VRIdle ==
    /\ clk = TRUE /\ val = 0 /\ rdy = 0
    /\ data = write_to_signal(Message, zeroed(Message))
    /\ pend = NoWrites /\ pq = <<>> /\ cq = <<>>
    /\ penabled = TRUE /\ cenabled = TRUE
    /\ pscopes = <<>> /\ cscopes = <<>>
    /\ ppc = "off" /\ cpc = "off"
    /\ rdy_is_ack = FALSE
    /\ sent = <<>> /\ got = <<>> /\ cSawFall = FALSE

InitVR ==
    /\ clk \in BOOLEAN
    /\ val \in {0, 1} /\ rdy \in {0, 1}
    /\ data = write_to_signal(Message, zeroed(Message))
    /\ pend = NoWrites /\ pq = <<>> /\ cq = <<>>
    /\ penabled = TRUE /\ cenabled = TRUE
    /\ pscopes = <<>> /\ cscopes = <<>>
    /\ ppc = "setup" /\ cpc = "setup"
    /\ rdy_is_ack \in BOOLEAN
    /\ sent = <<>> /\ got = <<>> /\ cSawFall = FALSE

----------------------------------------------------------------------------
(* ValRdyMonitor.                                                          *)

\* The name of the Monitor built for agent o.
Monitor(o) == <<"monitor", o>>

\* A driver built without a Monitor.
ValRdyDriver_subtasksNone(o) == <<>>

\* ValRdyDriver.__init__: the subtasks it hands to TBTask.__init__.
ValRdyDriver_subtasks(o) == <<Monitor(o)>>

\* A Monitor that logs whatever is valid.
MonitorSeesIgnoringReady(v, r) == v = 1

\* The condition of the Monitor's loop body on the values v (valid) and r
\* (ready) it reads.
MonitorSees(v, r) == r = 1 /\ v = 1

\* One pass of the Monitor's loop body: the value on data is decoded and
\* logged when the condition holds.
MonitorSample(log, v, r, d) ==
    IF MonitorSees(v, r) THEN Append(log, from_signal(Message, d)) ELSE log

\* A Monitor that drives ready.
MonitorWritesReady(p) == Write(p, "rdy", 1)

\* The signal writes of one pass of the Monitor's loop body: none.
MonitorWrites(p) == p

\* One iteration of the loop of ValRdyMonitor._task_coroutine, woken by a
\* rising edge: the loop condition, the sample, the await of the trigger.
ValRdyMonitor_iteration(o) ==
    /\ mon[o].pc = "at_rise"
    /\ MonitorSees(val, rdy) => Len(mon[o].log) <= MaxEnq + 1   \* bound
    /\ mon' = [mon EXCEPT ![o] = [pc  |-> "wait_rise",
                                  log |-> MonitorSample(@.log, val, rdy, data)]]
    /\ pend' = MonitorWrites(pend)
    /\ UNCHANGED <<clk, val, rdy, data, pq, cq, penabled, cenabled, pscopes,
                   cscopes, ppc, cpc, rdy_is_ack, sent, got, cSawFall>>
    /\ UNCHANGED <<tbVars, dqVars, cdVars, auxVars>>

\* TBTask.start of agent o up to the start of o's own body: each child's
\* body is started first and runs to its first await, so a Monitor has
\* made one pass of its loop on the values the signals have then.
StartedMonitor(o, v, r, d) ==
    IF Monitor(o) \in Range(ValRdyDriver_subtasks(o))
    THEN [pc |-> "wait_rise", log |-> MonitorSample(<<>>, v, r, d)]
    ELSE [pc |-> "off", log |-> <<>>]

\* TBTask.stop of agent o after the join of o's own body: each child's
\* stop() sets the child's stop event and joins it.  A Monitor that the
\* rising edge of this time step has woken runs its pass on the values v
\* and r it reads before the loop condition ends it.
StoppedMonitor(m, v, r, d) ==
    IF m.pc = "off" THEN m
    ELSE [pc  |-> "ended",
          log |-> IF m.pc = "at_rise" THEN MonitorSample(m.log, v, r, d)
                  ELSE m.log]

----------------------------------------------------------------------------
(* ValRdyProducer.                                                         *)

\* A Producer that never releases valid after a transfer.
ProducerSampleKeepsValid(p, v, r) == p

\* The sampling half of _driver_on_rising_edge, up to the await of the
\* falling edge, on the signal values v (valid) and r (ready).
ProducerSample(p, v, r) == IF r = 1 /\ v = 1 THEN Write(p, "val", 0) ELSE p

\* A setup that leaves valid as it finds it.
Producer_driver_setupOnlyData(p) ==
    Write(p, "data", write_to_signal(Message, zeroed(Message)))

\* ValRdyProducer._driver_setup: the writes it makes.
Producer_driver_setup(p) ==
    Write(Write(p, "val", 0), "data",
          write_to_signal(Message, zeroed(Message)))

ProducerSetup ==
    /\ ppc = "setup"
    /\ pend' = Producer_driver_setup(pend)
    /\ ppc' = "settle"
    /\ UNCHANGED <<tbVars, dqVars, cdVars, monVars, auxVars>>
    /\ UNCHANGED <<clk, val, rdy, data, pq, cq, penabled, cenabled, pscopes,
                   cscopes, cpc, rdy_is_ack, sent, got, cSawFall>>

\* SimulationUpdate() elapsed: ready_event is set and the first pass of the
\* loop runs up to its await of the falling edge.
ProducerReady ==
    /\ ppc = "settle"
    /\ val' = Applied(pend, "val", val)
    /\ rdy' = Applied(pend, "rdy", rdy)
    /\ data' = Applied(pend, "data", data)
    /\ pend' = ProducerSample(NoWrites, val', rdy')
    /\ ppc' = "wait_fall"
    /\ UNCHANGED <<tbVars, dqVars, cdVars, monVars, auxVars>>
    /\ UNCHANGED <<clk, pq, cq, penabled, cenabled, pscopes, cscopes, cpc,
                   rdy_is_ack, sent, got, cSawFall>>

ProducerOnRisingEdge ==
    /\ ppc = "at_rise"
    /\ ~stop_is_set("producer")
    /\ pend' = ProducerSample(pend, val, rdy)
    /\ ppc' = "wait_fall"
    /\ UNCHANGED <<tbVars, dqVars, cdVars, monVars, auxVars>>
    /\ UNCHANGED <<clk, val, rdy, data, pq, cq, penabled, cenabled, pscopes,
                   cscopes, cpc, rdy_is_ack, sent, got, cSawFall>>

\* A Producer that latches the next item over a value it still presents.
ProducerLatchesOverValid(v, en, q) == en /\ q # <<>>

\* A Producer that latches although it is disabled.
ProducerLatchesDisabled(v, en, q) == v = 0 /\ q # <<>>

\* The condition of the second half of _driver_on_rising_edge.
ProducerLatches(v, en, q) == v = 0 /\ en /\ q # <<>>

ProducerOnFallingEdge ==
    /\ ppc = "at_fall"
    /\ IF ProducerLatches(val, penabled, pq)
       THEN /\ pend' = Write(Write(pend, "val", 1), "data",
                             write_to_signal(Message, Head(pq)))
            /\ pq' = Tail(pq)
       ELSE UNCHANGED <<pend, pq>>
    /\ ppc' = "wait_rise"
    /\ UNCHANGED <<tbVars, dqVars, cdVars, monVars, auxVars>>
    /\ UNCHANGED <<clk, val, rdy, data, cq, penabled, cenabled, pscopes,
                   cscopes, cpc, rdy_is_ack, sent, got, cSawFall>>

enqueue_values(v) ==
    /\ AgentsReady
    /\ Len(sent) < MaxEnq
    /\ pq' = Append(pq, v)
    /\ sent' = Append(sent, v)
    /\ UNCHANGED <<tbVars, dqVars, cdVars, monVars, auxVars>>
    /\ UNCHANGED <<clk, val, rdy, data, pend, cq, penabled, cenabled, pscopes,
                   cscopes, ppc, cpc, rdy_is_ack, got, cSawFall>>

----------------------------------------------------------------------------
(* ValRdyConsumer.                                                         *)

\* A Consumer that takes whatever is valid, ready or not.
ConsumerTakesIgnoringReady(v, r) == v = 1

\* Whether the sampling half of _driver_on_rising_edge puts a value.
ConsumerTakes(v, r) == r = 1 /\ v = 1

ConsumerSetup ==
    /\ cpc = "setup"
    /\ pend' = Write(pend, "rdy", 0)
    /\ cpc' = "settle"
    /\ UNCHANGED <<tbVars, dqVars, cdVars, monVars, auxVars>>
    /\ UNCHANGED <<clk, val, rdy, data, pq, cq, penabled, cenabled, pscopes,
                   cscopes, ppc, rdy_is_ack, sent, got, cSawFall>>

ConsumerReady ==
    /\ cpc = "settle"
    /\ val' = Applied(pend, "val", val)
    /\ rdy' = Applied(pend, "rdy", rdy)
    /\ data' = Applied(pend, "data", data)
    /\ pend' = NoWrites
    /\ IF ConsumerTakes(val', rdy')
       THEN /\ cq' = Append(cq, from_signal(Message, data'))
            /\ got' = Append(got, from_signal(Message, data'))
       ELSE UNCHANGED <<cq, got>>
    /\ cpc' = "wait_fall"
    /\ UNCHANGED <<tbVars, dqVars, cdVars, monVars, auxVars>>
    /\ UNCHANGED <<clk, pq, penabled, cenabled, pscopes, cscopes, ppc,
                   rdy_is_ack, sent, cSawFall>>

ConsumerOnRisingEdge ==
    /\ cpc = "at_rise"
    /\ ~stop_is_set("consumer")
    /\ ConsumerTakes(val, rdy) => Len(got) <= MaxEnq   \* bound of the model
    /\ IF ConsumerTakes(val, rdy)
       THEN /\ cq' = Append(cq, from_signal(Message, data))
            /\ got' = Append(got, from_signal(Message, data))
       ELSE UNCHANGED <<cq, got>>
    /\ cpc' = "wait_fall"
    /\ UNCHANGED <<tbVars, dqVars, cdVars, monVars, auxVars>>
    /\ UNCHANGED <<clk, val, rdy, data, pend, pq, penabled, cenabled, pscopes,
                   cscopes, ppc, rdy_is_ack, sent, cSawFall>>

\* The unbounded Queue() is never full.
can_consume == cenabled

\* A Consumer that is always ready.
ReadyValueAlways(ack, v, can) == 1

\* A Consumer that holds ready whatever the polarity.
ReadyValueHeld(ack, v, can) == IF can THEN 1 ELSE 0

\* A Consumer that reads valid as the Producer has just written it, as if
\* the writes of a time step were applied at once.
ReadyValueSeesWrites(ack, v, can) ==
    IF ack
    THEN (IF Applied(pend, "val", v) = 1 /\ can THEN 1 ELSE 0)
    ELSE (IF can THEN 1 ELSE 0)

\* The value the second half of _driver_on_rising_edge writes to ready.
ReadyValue(ack, v, can) ==
    IF ack
    THEN (IF v = 1 /\ can THEN 1 ELSE 0)
    ELSE (IF can THEN 1 ELSE 0)

ConsumerOnFallingEdge ==
    /\ cpc = "at_fall"
    /\ pend' = Write(pend, "rdy", ReadyValue(rdy_is_ack, val, can_consume))
    /\ cSawFall' = ~cenabled
    /\ cpc' = "wait_rise"
    /\ UNCHANGED <<tbVars, dqVars, cdVars, monVars, auxVars>>
    /\ UNCHANGED <<clk, val, rdy, data, pq, cq, penabled, cenabled, pscopes,
                   cscopes, ppc, rdy_is_ack, sent, got>>

dequeue_value ==
    /\ AgentsReady
    /\ cq # <<>>
    /\ cq' = Tail(cq)
    /\ deq' = Append(deq, Head(cq))
    /\ UNCHANGED <<tbVars, gen, cdVars, monVars, auxVars>>
    /\ UNCHANGED <<clk, val, rdy, data, pend, pq, penabled, cenabled, pscopes,
                   cscopes, ppc, cpc, rdy_is_ack, sent, got, cSawFall>>

----------------------------------------------------------------------------
(* ValRdyDriver.disabled(): entering saves enabled and clears it, leaving  *)
(* restores the saved value.  Scopes held by different coroutines need not *)
(* be left in the order they were entered.                                 *)

\* A scope exit that switches the agent on whatever it was before.
RestoredEnabledAlwaysOn(old_enabled) == TRUE

\* The finally clause of disabled(): the value assigned to enabled.
RestoredEnabled(old_enabled) == old_enabled

\* A disabled() that withdraws the beat the Producer presents.
ProducerDisabledEnterWithdraws ==
    /\ AgentsReady
    /\ Len(pscopes) < MaxScopes
    /\ pscopes' = Append(pscopes, penabled)
    /\ penabled' = FALSE
    /\ pend' = Write(pend, "val", 0)
    /\ UNCHANGED <<tbVars, dqVars, cdVars, monVars, auxVars>>
    /\ UNCHANGED <<clk, val, rdy, data, pq, cq, cenabled, cscopes, ppc,
                   cpc, rdy_is_ack, sent, got, cSawFall>>

ProducerDisabledEnter ==
    /\ AgentsReady
    /\ Len(pscopes) < MaxScopes
    /\ pscopes' = Append(pscopes, penabled)
    /\ penabled' = FALSE
    /\ UNCHANGED <<tbVars, dqVars, cdVars, monVars, auxVars>>
    /\ UNCHANGED <<clk, val, rdy, data, pend, pq, cq, cenabled, cscopes, ppc,
                   cpc, rdy_is_ack, sent, got, cSawFall>>

ProducerDisabledExit(i) ==
    /\ i \in DOMAIN pscopes
    /\ penabled' = RestoredEnabled(pscopes[i])
    /\ pscopes' = RemoveAt(pscopes, i)
    /\ UNCHANGED <<tbVars, dqVars, cdVars, monVars, auxVars>>
    /\ UNCHANGED <<clk, val, rdy, data, pend, pq, cq, cenabled, cscopes, ppc,
                   cpc, rdy_is_ack, sent, got, cSawFall>>

ConsumerDisabledEnter ==
    /\ AgentsReady
    /\ Len(cscopes) < MaxScopes
    /\ cscopes' = Append(cscopes, cenabled)
    /\ cenabled' = FALSE
    /\ UNCHANGED <<tbVars, dqVars, cdVars, monVars, auxVars>>
    /\ UNCHANGED <<clk, val, rdy, data, pend, pq, cq, penabled, pscopes, ppc,
                   cpc, rdy_is_ack, sent, got, cSawFall>>

ConsumerDisabledExit(i) ==
    /\ i \in DOMAIN cscopes
    /\ cenabled' = RestoredEnabled(cscopes[i])
    /\ cscopes' = RemoveAt(cscopes, i)
    /\ cSawFall' = (cSawFall /\ ~cscopes[i])
    /\ UNCHANGED <<tbVars, dqVars, cdVars, monVars, auxVars>>
    /\ UNCHANGED <<clk, val, rdy, data, pend, pq, cq, penabled, pscopes, ppc,
                   cpc, rdy_is_ack, sent, got>>

----------------------------------------------------------------------------
(* The clock: the next edge comes when every coroutine of this time step   *)
(* has run; the writes of the step are applied before it.                  *)

\* A clock whose falling edge wakes nobody.
WokenByRisingOnly(pc, level) ==
    IF level /\ pc = "wait_rise" THEN "at_rise" ELSE pc

Woken(pc, level) ==
    IF level /\ pc = "wait_rise" THEN "at_rise"
    ELSE IF ~level /\ pc = "wait_fall" THEN "at_fall"
    ELSE pc

ClockEdge ==
    /\ "clock" \notin ended
    /\ ppc \notin Runnable /\ cpc \notin Runnable
    /\ \A o \in Agents : mon[o].pc \notin Runnable
    /\ clk' = ~clk
    /\ val' = Applied(pend, "val", val)
    /\ rdy' = Applied(pend, "rdy", rdy)
    /\ data' = Applied(pend, "data", data)
    /\ pend' = NoWrites
    /\ ppc' = Woken(ppc, clk')
    /\ cpc' = Woken(cpc, clk')
    /\ mon' = [o \in Agents |-> [mon[o] EXCEPT !.pc = Woken(@, clk')]]
    /\ UNCHANGED <<tbVars, dqVars, cdVars, auxVars>>
    /\ UNCHANGED <<pq, cq, penabled, cenabled, pscopes, cscopes, rdy_is_ack,
                   sent, got, cSawFall>>

ProducerStep ==
    ProducerSetup \/ ProducerReady \/ ProducerOnRisingEdge
        \/ ProducerOnFallingEdge

ConsumerStep ==
    ConsumerSetup \/ ConsumerReady \/ ConsumerOnRisingEdge
        \/ ConsumerOnFallingEdge

----------------------------------------------------------------------------
(* Faults.  An exception is a record: its class, what it is about (the    *)
(* task whose code raised it, or the message of a group), its notes and,   *)
(* for an exception group, the exceptions it contains.                     *)

Exc(cls, what) == [cls |-> cls, what |-> what, notes |-> <<>>, excs |-> <<>>]

None == Exc("None", "")

TBCleanupException(exceptions, task_repr) ==
    [cls |-> "TBCleanupException", what |-> task_repr, notes |-> <<>>,
     excs |-> exceptions]

TBCleanupAssertionError(exception, task_repr) ==
    [cls |-> "TBCleanupAssertionError", what |-> task_repr, notes |-> <<>>,
     excs |-> <<exception>>]

TBFailure(message, exceptions) ==
    [cls |-> "TBFailure", what |-> message, notes |-> <<>>,
     excs |-> exceptions]

add_note(e, note) == [e EXCEPT !.notes = Append(@, note)]

\* No dequeue_values generator has been created.
NoGenerator == [n |-> 0, count |-> 0, state |-> "none"]

\* What a call made by the test raised or returned.
Raised(e) == [kind |-> "raised", exc |-> e]
Returned == [kind |-> "returned", exc |-> None]
Pending == [kind |-> "pending", exc |-> None]

TBIdle ==
    /\ tasks = <<>> /\ tbpc = "off" /\ stack = <<>> /\ cursor = 0
    /\ running = {} /\ ended = {}
    /\ setup_exceptions = <<>> /\ cleanup_exceptions = <<>>
    /\ exc_value = None /\ result = Pending
    /\ startLog = <<>> /\ stopLog = <<>> /\ stopRet = NoWrites
    /\ deq = <<>> /\ gen = NoGenerator /\ cd = NoCodec
    /\ mon = NoMonitors
    /\ fc = NoClock /\ clock_of = NoWrites /\ hold = NoHold

NextVR ==
    \/ ProducerStep
    \/ ConsumerStep
    \/ ClockEdge
    \/ \E v \in Values : enqueue_values(v)
    \/ dequeue_value
    \/ ProducerDisabledEnter
    \/ \E i \in 1..MaxScopes : ProducerDisabledExit(i)
    \/ ConsumerDisabledEnter
    \/ \E i \in 1..MaxScopes : ConsumerDisabledExit(i)

\* A bench that only drives the interface: no Orchestrator is entered.
InitInterface == InitVR /\ TBIdle

SpecVR == InitInterface /\ [][NextVR]_vars

\* The same interface with no disabled() scope: the Consumer stays enabled.
NextStream ==
    \/ ProducerStep
    \/ ConsumerStep
    \/ ClockEdge
    \/ \E v \in Values : enqueue_values(v)
    \/ dequeue_value

\* The scheduler runs every woken coroutine and the clock keeps ticking.
SpecStream ==
    /\ InitInterface /\ [][NextStream]_vars
    /\ WF_vars(ClockEdge)
    /\ WF_vars(ProducerStep)
    /\ WF_vars(ConsumerStep)

----------------------------------------------------------------------------
(* Properly nested disabled() scopes: `with` blocks of one coroutine, left *)
(* innermost first, by the end of the block or by an exception in it.      *)

NextScopes ==
    \/ ProducerStep
    \/ ConsumerStep
    \/ ClockEdge
    \/ \E v \in Values : enqueue_values(v)
    \/ ProducerDisabledEnter
    \/ ProducerDisabledExit(Len(pscopes))
    \/ ConsumerDisabledEnter
    \/ ConsumerDisabledExit(Len(cscopes))

SpecScopes == InitInterface /\ [][NextScopes]_vars

\* C13: with properly nested disabled() scopes, the enabled flag of an
\* agent is false while a scope is open; the value a scope saves is the
\* value the flag had just before the scope was entered, and when the scope
\* is left the flag has that value again.
C13_ScopeRestoresEnabled ==
    [][/\ pscopes' # <<>> => ~penabled'
       /\ cscopes' # <<>> => ~cenabled'
       /\ Len(pscopes') > Len(pscopes) => pscopes'[Len(pscopes')] = penabled
       /\ Len(cscopes') > Len(cscopes) => cscopes'[Len(cscopes')] = cenabled
       /\ Len(pscopes') < Len(pscopes) => penabled' = pscopes[Len(pscopes)]
       /\ Len(cscopes') < Len(cscopes) => cenabled' = cscopes[Len(cscopes)]
      ]_vars

\* C13 witness: the Producer is inside a scope nested in another one, and
\* the Consumer has left its scopes in the time step in which its
\* falling-edge step, run inside a scope, published ready 0: it is enabled
\* again.
C13_Witness ==
    /\ pscopes = <<TRUE, FALSE>> /\ ~penabled
    /\ cscopes = <<>> /\ cenabled
    /\ ~rdy_is_ack /\ cpc = "wait_rise"
    /\ "rdy" \in DOMAIN pend /\ pend["rdy"] = 0

----------------------------------------------------------------------------
(* Claims about the valid/ready interface.                                 *)

\* C1: with a Consumer that stays enabled, what the Consumer has put in its
\* FIFO is at every moment a prefix of the values enqueued on the Producer
\* (nothing duplicated, reordered or altered), and it eventually is the
\* whole enqueued sequence for good (nothing lost).
C1_ExactlyOnceInOrder == [](IsPrefix(got, sent)) /\ <>[](got = sent)

\* C1 witness: several different values went through, all of them.
C1_Witness == Len(got) >= 2 /\ got = sent /\ got[1] # got[2]

\* C2 as stated: no value is enqueued while a disabled() scope is open on
\* the Consumer, and every value enqueued is the oldest one not yet
\* transferred.
C2_Original ==
    [][/\ cscopes # <<>> => got' = got
       /\ got' # got => /\ Len(got) < Len(sent)
                        /\ got' = Append(got, sent[Len(got) + 1])]_vars

\* C2 amended: once the Consumer has run a falling-edge step with its
\* enabled flag false, it enqueues nothing for as long as the flag stays
\* false (ready is recomputed only at falling edges, so the rising edge
\* before that step can still record one transfer); every value enqueued,
\* so also the first one after the scope exits, is the oldest one not yet
\* transferred.
C2_Backpressure ==
    [][/\ (~cenabled /\ cSawFall) => got' = got
       /\ got' # got => /\ Len(got) < Len(sent)
                        /\ got' = Append(got, sent[Len(got) + 1])]_vars

\* C2 witness: inside a scope, after the falling edge that withdrew ready,
\* the Consumer has sampled a rising edge with a value waiting on the wire
\* and did not take it.
C2_Witness ==
    /\ cscopes # <<>> /\ ~cenabled /\ cSawFall
    /\ val = 1 /\ rdy = 0 /\ clk /\ cpc = "wait_fall"
    /\ Len(got) < Len(sent)

----------------------------------------------------------------------------
(* The fixture: AbstractTB and the tree of TBTasks it owns.                *)

\* Top-level tasks a fixture can register besides the clock.
TopIds == {"a", "b", "c"}

\* TBTask.subtasks.  Task a is shaped like ValRdyNetworkInterfaceDriver:
\* two children, the first of which has a child of its own.
subtasks(t) ==
    CASE t = "a"  -> <<"a1", "a2">>
      [] t = "a1" -> <<"a11">>
      [] OTHER    -> <<>>

\* FakeClock and RealClock have a cooperative body that raises nothing and
\* keep the default on_test_finish; every other task is any TBTask.
CanFault(t) == t # "clock"

\* Sequences without repetition of at most n elements of S.
RECURSIVE Orders(_, _)
Orders(S, n) ==
    IF n = 0 THEN {<<>>}
    ELSE {<<>>} \cup UNION {{<<x>> \o o : o \in Orders(S \ {x}, n - 1)} : x \in S}

\* AbstractTB.__init__: the clock is registered first, then the tasks of
\* the mapping in its order.
InitTB ==
    /\ tasks \in {<<"clock">> \o o : o \in Orders(TopIds, MaxTasks)}
    /\ tbpc = "constructed"
    /\ stack = <<>> /\ cursor = 0
    /\ running = {} /\ ended = {}
    /\ setup_exceptions = <<>> /\ cleanup_exceptions = <<>>
    /\ exc_value = None /\ result = Pending
    /\ startLog = <<>> /\ stopLog = <<>> /\ stopRet = NoWrites
    /\ deq = <<>> /\ gen = NoGenerator /\ cd = NoCodec
    /\ mon = NoMonitors
    /\ fc = NoClock /\ clock_of = NoWrites /\ hold = NoHold

Frame(op, t) ==
    [op |-> op, task |-> t, idx |-> IF op = "start" THEN 1 ELSE 0,
     exceptions |-> <<>>, subtask_raised |-> FALSE]

Top == stack[Len(stack)]
Below == SubSeq(stack, 1, Len(stack) - 1)

\* __aenter__ up to the loop over the tasks: reset() went through.
aenter_begin ==
    /\ tbpc = "constructed"
    /\ tbpc' = "entering"
    /\ cursor' = 1
    /\ UNCHANGED <<tasks, stack, running, ended, setup_exceptions,
                   cleanup_exceptions, exc_value, result, startLog, stopLog,
                   stopRet>>
    /\ UNCHANGED <<vrVars, dqVars, cdVars, monVars, auxVars>>

\* An __aenter__ that drops the collected failures.
EnterOutcomeSwallowing(excs) == Returned

\* What __aenter__ does in its finally clause.
EnterOutcome(excs) ==
    IF excs # <<>> THEN Raised(TBFailure("Test setup failed", excs))
    ELSE Returned

\* __aenter__ when reset() raises: the outer handler collects it and no
\* task is started.
aenter_reset_fails ==
    /\ tbpc = "constructed"
    /\ setup_exceptions' = <<Exc("Exception", "reset")>>
    /\ result' = EnterOutcome(setup_exceptions')
    /\ tbpc' = "enter_failed"
    /\ UNCHANGED <<tasks, stack, cursor, running, ended, cleanup_exceptions,
                   exc_value, startLog, stopLog, stopRet>>
    /\ UNCHANGED <<vrVars, dqVars, cdVars, monVars, auxVars>>

\* The loop of __aenter__ calls start() of the next task.
aenter_start_next ==
    /\ tbpc = "entering" /\ stack = <<>>
    /\ cursor <= Len(tasks)
    /\ stack' = <<Frame("start", tasks[cursor])>>
    /\ cursor' = cursor + 1
    /\ UNCHANGED <<tasks, tbpc, running, ended, setup_exceptions,
                   cleanup_exceptions, exc_value, result, startLog, stopLog,
                   stopRet>>
    /\ UNCHANGED <<vrVars, dqVars, cdVars, monVars, auxVars>>

\* A start() that starts the task's own body before its children.
BodyTurnFirst(t, idx) == idx = 1

\* TBTask.start: whether the loop over the subtasks is over, so that the
\* task's own body is started.
BodyTurn(t, idx) == idx > Len(subtasks(t))

\* TBTask.start: start the next child.
TBTask_start_child ==
    /\ stack # <<>> /\ Top.op = "start"
    /\ ~BodyTurn(Top.task, Top.idx)
    /\ Top.idx <= Len(subtasks(Top.task))
    /\ stack' = Append(Below \o <<[Top EXCEPT !.idx = @ + 1]>>,
                       Frame("start", subtasks(Top.task)[Top.idx]))
    /\ UNCHANGED <<tasks, tbpc, cursor, running, ended, setup_exceptions,
                   cleanup_exceptions, exc_value, result, startLog, stopLog,
                   stopRet>>
    /\ UNCHANGED <<vrVars, dqVars, cdVars, monVars, auxVars>>

\* TBTask.start: cocotb.start of the task's own body, then return.
TBTask_start_body ==
    /\ stack # <<>> /\ Top.op = "start"
    /\ BodyTurn(Top.task, Top.idx)
    /\ running' = running \cup {Top.task}
    /\ startLog' = Append(startLog, <<"started", Top.task>>)
    /\ stack' = Below
    /\ UNCHANGED <<tasks, tbpc, cursor, ended, setup_exceptions,
                   cleanup_exceptions, exc_value, result, stopLog, stopRet>>
    /\ UNCHANGED <<vrVars, dqVars, cdVars, monVars, auxVars>>

\* A start() whose failure is caught outside the loop of __aenter__: no
\* further task is started.
TBTask_start_failsAborting ==
    /\ stack # <<>> /\ Top.op = "start"
    /\ BodyTurn(Top.task, Top.idx)
    /\ CanFault(Top.task)
    /\ startLog' = Append(startLog, <<"failed", Top.task>>)
    /\ setup_exceptions' = Append(setup_exceptions, Exc("Exception", Top.task))
    /\ stack' = <<>>
    /\ cursor' = Len(tasks) + 1
    /\ UNCHANGED <<tasks, tbpc, running, ended, cleanup_exceptions,
                   exc_value, result, stopLog, stopRet>>
    /\ UNCHANGED <<vrVars, dqVars, cdVars, monVars, auxVars>>

\* TBTask.start raises: nothing in start() catches it, so it leaves every
\* start() on the stack and is collected by the loop of __aenter__.
TBTask_start_fails ==
    /\ stack # <<>> /\ Top.op = "start"
    /\ BodyTurn(Top.task, Top.idx)
    /\ CanFault(Top.task)
    /\ startLog' = Append(startLog, <<"failed", Top.task>>)
    /\ setup_exceptions' = Append(setup_exceptions, Exc("Exception", Top.task))
    /\ stack' = <<>>
    /\ UNCHANGED <<tasks, tbpc, cursor, running, ended, cleanup_exceptions,
                   exc_value, result, stopLog, stopRet>>
    /\ UNCHANGED <<vrVars, dqVars, cdVars, monVars, auxVars>>

\* __aenter__ after the loop: raise the collected failures or return self.
aenter_finish ==
    /\ tbpc = "entering" /\ stack = <<>>
    /\ cursor > Len(tasks)
    /\ result' = EnterOutcome(setup_exceptions)
    /\ tbpc' = IF result'.kind = "raised" THEN "enter_failed" ELSE "body"
    /\ UNCHANGED <<tasks, stack, cursor, running, ended, setup_exceptions,
                   cleanup_exceptions, exc_value, startLog, stopLog, stopRet>>
    /\ UNCHANGED <<vrVars, dqVars, cdVars, monVars, auxVars>>

----------------------------------------------------------------------------
(* Leaving the fixture: __aexit__, __stop_tasks and TBTask.stop.           *)

\* isinstance(exc_value, Exception)
IsException(e) == e.cls \notin {"None", "BaseException"}

\* What the protected body can end with.
BodyOutcomes ==
    {None, Exc("AssertionError", "body"), Exc("Exception", "body"),
     Exc("BaseException", "body")}

NotClock(id) == id # "clock"

\* A stop order that leaves the clock where it was registered.
StopOrderAsRegistered(ts) == ts

\* The ids in the reverse of their order.
StopOrderReversed(ts) == Reverse(ts)

\* task_ids of __stop_tasks.
StopOrder(ts) ==
    IF "clock" \in Range(ts)
    THEN SelectSeq(ts, NotClock) \o <<"clock">>
    ELSE ts

task_ids == StopOrder(tasks)

\* An __aexit__ that marks every body exception as critical.
BodyNotesAlwaysCritical(e) ==
    add_note(add_note(e, <<"Raised in TB body", "">>), <<"CRITICAL", "">>)

\* __aexit__: the notes added to the exception the body raised.
BodyNotes(e) ==
    LET n == add_note(e, <<"Raised in TB body", "">>)
    IN IF e.cls # "AssertionError"
       THEN add_note(n, <<"CRITICAL", "">>)
       ELSE n

\* __aexit__ up to the first stop(): the body's exception is annotated.
aexit_begin(e) ==
    /\ tbpc = "body"
    /\ exc_value' = IF IsException(e) THEN BodyNotes(e) ELSE e
    /\ tbpc' = "exiting"
    /\ cursor' = 1
    /\ UNCHANGED <<tasks, stack, running, ended, setup_exceptions,
                   cleanup_exceptions, result, startLog, stopLog, stopRet>>
    /\ UNCHANGED <<vrVars, dqVars, cdVars, monVars, auxVars>>

\* The loop of __stop_tasks calls stop() of the next task.
stop_tasks_next ==
    /\ tbpc = "exiting" /\ stack = <<>>
    /\ cursor <= Len(task_ids)
    /\ stack' = <<Frame("stop", task_ids[cursor])>>
    /\ stopLog' = Append(stopLog, <<"begin", task_ids[cursor]>>)
    /\ cursor' = cursor + 1
    /\ UNCHANGED <<tasks, tbpc, running, ended, setup_exceptions,
                   cleanup_exceptions, exc_value, result, startLog, stopRet>>
    /\ UNCHANGED <<vrVars, dqVars, cdVars, monVars, auxVars>>

\* TBTask.stop of a task built with use_kill: the body is killed.
TBTask_stop_kill ==
    /\ stack # <<>> /\ Top.op = "stop" /\ Top.idx = 0
    /\ CanFault(Top.task)
    /\ ended' = ended \cup {Top.task}
    /\ stack' = Below \o <<[Top EXCEPT !.idx = 1]>>
    /\ UNCHANGED <<tasks, tbpc, cursor, running, setup_exceptions,
                   cleanup_exceptions, exc_value, result, startLog, stopLog,
                   stopRet>>
    /\ UNCHANGED <<vrVars, dqVars, cdVars, monVars, auxVars>>

\* TBTask.stop of a cooperative task: the stop event is set and the join
\* returns, the body having ended without an exception.
TBTask_stop_join ==
    /\ stack # <<>> /\ Top.op = "stop" /\ Top.idx = 0
    /\ ended' = ended \cup {Top.task}
    /\ stack' = Below \o <<[Top EXCEPT !.idx = 1]>>
    /\ UNCHANGED <<tasks, tbpc, cursor, running, setup_exceptions,
                   cleanup_exceptions, exc_value, result, startLog, stopLog,
                   stopRet>>
    /\ UNCHANGED <<vrVars, dqVars, cdVars, monVars, auxVars>>

\* The stop() calls on the stack, innermost first.
RaiseEvents == [i \in 1..Len(stack) |-> <<"raise", stack[Len(stack) + 1 - i].task>>]

\* TBTask.stop of a cooperative task whose body, asked to stop, ends with
\* an exception: the join re-raises it.  No stop() on the stack, nor __stop_tasks, nor
\* __aexit__ catches it: it is what leaving the fixture raises.
TBTask_stop_join_raises ==
    /\ stack # <<>> /\ Top.op = "stop" /\ Top.idx = 0
    /\ CanFault(Top.task)
    /\ ended' = ended \cup {Top.task}
    /\ stopLog' = stopLog \o RaiseEvents
    /\ result' = Raised(Exc("BodyException", Top.task))
    /\ stack' = <<>>
    /\ tbpc' = "exited"
    /\ UNCHANGED <<tasks, cursor, running, setup_exceptions,
                   cleanup_exceptions, exc_value, startLog, stopRet>>
    /\ UNCHANGED <<vrVars, dqVars, cdVars, monVars, auxVars>>

\* TBTask.stop: the loop over the subtasks calls stop() of the next child.
TBTask_stop_child ==
    /\ stack # <<>> /\ Top.op = "stop" /\ Top.idx >= 1
    /\ Top.idx <= Len(subtasks(Top.task))
    /\ stack' = Append(Below \o <<[Top EXCEPT !.idx = @ + 1]>>,
                       Frame("stop", subtasks(Top.task)[Top.idx]))
    /\ stopLog' = Append(stopLog, <<"begin", subtasks(Top.task)[Top.idx]>>)
    /\ UNCHANGED <<tasks, tbpc, cursor, running, ended, setup_exceptions,
                   cleanup_exceptions, exc_value, result, startLog, stopRet>>
    /\ UNCHANGED <<vrVars, dqVars, cdVars, monVars, auxVars>>

\* What on_test_finish of a task can do.
Hooks(t) == IF CanFault(t) THEN {"pass", "assert", "error"} ELSE {"pass"}

\* The handlers around on_test_finish.
HookFaults(h, t) ==
    CASE h = "assert" -> <<TBCleanupAssertionError(Exc("AssertionError", t), t)>>
      [] h = "error"  -> <<TBCleanupException(<<Exc("Exception", t)>>, t)>>
      [] OTHER        -> <<>>

\* A stop() that wraps whatever it collected, a single fault too.
StopReturnAlwaysGroup(exceptions, subtask_raised, t) ==
    IF exceptions # <<>> THEN TBCleanupException(exceptions, t) ELSE None

\* The return value of TBTask.stop.
StopReturn(exceptions, subtask_raised, t) ==
    IF Len(exceptions) = 1 /\ ~subtask_raised THEN exceptions[1]
    ELSE IF exceptions # <<>> THEN TBCleanupException(exceptions, t)
    ELSE None

\* A stop() that runs on_test_finish as soon as the body has ended.
HookTurnEarly(t, idx) == idx >= 1

\* TBTask.stop: whether the loop over the subtasks is over, so that
\* on_test_finish runs.
HookTurn(t, idx) == idx > Len(subtasks(t))

\* TBTask.stop after the children: on_test_finish runs and stop() returns,
\* to the stop() of the parent or to the loop of __stop_tasks.
TBTask_stop_finish(h) ==
    /\ stack # <<>> /\ Top.op = "stop" /\ HookTurn(Top.task, Top.idx)
    /\ h \in Hooks(Top.task)
    /\ LET e == StopReturn(Top.exceptions \o HookFaults(h, Top.task),
                           Top.subtask_raised, Top.task)
       IN /\ stopLog' = stopLog \o <<<<"hook", Top.task, h>>,
                                      <<"end", Top.task>>>>
          /\ IF Len(stack) > 1
             THEN /\ stack' = SubSeq(stack, 1, Len(stack) - 2) \o
                       <<[stack[Len(stack) - 1] EXCEPT
                            !.exceptions = IF e # None THEN Append(@, e) ELSE @,
                            !.subtask_raised = @ \/ e # None]>>
                  /\ UNCHANGED <<cleanup_exceptions, stopRet>>
             ELSE /\ stack' = <<>>
                  /\ cleanup_exceptions' =
                       IF e # None
                       THEN Append(cleanup_exceptions,
                                   add_note(e, <<"Raised in task", Top.task>>))
                       ELSE cleanup_exceptions
                  /\ stopRet' = Write(stopRet, Top.task, e)
    /\ UNCHANGED <<tasks, tbpc, cursor, running, ended, setup_exceptions,
                   exc_value, result, startLog>>
    /\ UNCHANGED <<vrVars, dqVars, cdVars, monVars, auxVars>>

\* The end of __stop_tasks.
StopTasksReturn(excs) ==
    IF excs # <<>> THEN TBCleanupException(excs, "TB cleanup") ELSE None

\* The end of __aexit__, and what leaving the `async with` block gives:
\* the TBFailure, or the body's own exception when __aexit__ returns False.
ExitOutcome(body, final) ==
    LET exceptions == (IF IsException(body) THEN <<body>> ELSE <<>>) \o
                      (IF final # None THEN <<final>> ELSE <<>>)
    IN IF exceptions # <<>> THEN Raised(TBFailure("Test failed", exceptions))
       ELSE IF body # None THEN Raised(body)
       ELSE Returned

aexit_finish ==
    /\ tbpc = "exiting" /\ stack = <<>>
    /\ cursor > Len(task_ids)
    /\ result' = ExitOutcome(exc_value, StopTasksReturn(cleanup_exceptions))
    /\ tbpc' = "exited"
    /\ UNCHANGED <<tasks, stack, cursor, running, ended, setup_exceptions,
                   cleanup_exceptions, exc_value, startLog, stopLog, stopRet>>
    /\ UNCHANGED <<vrVars, dqVars, cdVars, monVars, auxVars>>

NextTB ==
    \/ aenter_begin
    \/ aenter_reset_fails
    \/ aenter_start_next
    \/ TBTask_start_child
    \/ TBTask_start_body
    \/ TBTask_start_fails
    \/ aenter_finish
    \/ \E e \in BodyOutcomes : aexit_begin(e)
    \/ stop_tasks_next
    \/ TBTask_stop_kill
    \/ TBTask_stop_join
    \/ TBTask_stop_join_raises
    \/ TBTask_stop_child
    \/ \E h \in {"pass", "assert", "error"} : TBTask_stop_finish(h)
    \/ aexit_finish

\* An Orchestrator whose tasks drive no interface.
InitOrchestrator == InitTB /\ VRIdle

SpecTB == InitOrchestrator /\ [][NextTB]_vars

----------------------------------------------------------------------------
(* Construction of the fixture: AbstractTB.__init__ registers the clock    *)
(* and then the tasks it was given, each through add_task.                 *)

\* An add_task that registers without looking at the ids in use.
\* isinstance(task, NeedsClock): the tasks that need a clock.  The
\* first child of a holds a task that needs one without needing one itself.
NeedsClock(t) == t \in {"a", "a2", "a11", "c"}

\* A binding that stops at the task registered.
fullfill_needs_clock_top(attrs, t) ==
    IF NeedsClock(t) THEN Write(attrs, t, attrs["tb"]) ELSE attrs

\* __recursively_fullfill_needs_clock: setattr(task, 'clock', self.clock)
\* on the task if it needs a clock, then the same on each of its subtasks.
\* attrs holds the clock attribute of the fixture, under "tb", and of each
\* task that has one.
RECURSIVE recursively_fullfill_needs_clock(_, _)
recursively_fullfill_needs_clock(attrs, t) ==
    LET F[i \in 0..Len(subtasks(t))] ==
            IF i = 0
            THEN IF NeedsClock(t) THEN Write(attrs, t, attrs["tb"]) ELSE attrs
            ELSE recursively_fullfill_needs_clock(F[i - 1], subtasks(t)[i])
    IN F[Len(subtasks(t))]

\* setattr(self, id, task): the fixture's attribute `clock` is the task
\* registered under the id 'clock'.
setattr_id(attrs, id) ==
    IF id = "clock" THEN Write(attrs, "tb", "clock") ELSE attrs

InUseNever(id, ts) == FALSE

\* add_task: `id in self.tasks`.
InUse(id, ts) == id \in Range(ts)

InitConstruct ==
    /\ tasks = <<>> /\ tbpc = "init"
    /\ stack = <<>> /\ cursor = 0
    /\ running = {} /\ ended = {}
    /\ setup_exceptions = <<>> /\ cleanup_exceptions = <<>>
    /\ exc_value = None /\ result = Pending
    /\ startLog = <<>> /\ stopLog = <<>> /\ stopRet = NoWrites
    /\ deq = <<>> /\ gen = NoGenerator /\ cd = NoCodec
    /\ mon = NoMonitors
    /\ fc = NoClock /\ clock_of = NoWrites /\ hold = NoHold
    /\ VRIdle

\* AbstractTB.__init__ up to its loop: self.tasks = dict() and the clock
\* (RealClock or FakeClock) registered under the id 'clock'.
AbstractTB_init ==
    /\ tbpc = "init"
    /\ tasks' = <<"clock">>
    /\ clock_of' = recursively_fullfill_needs_clock(
                       setattr_id(clock_of, "clock"), "clock")
    /\ tbpc' = "constructing"
    /\ UNCHANGED <<stack, cursor, running, ended, setup_exceptions,
                   cleanup_exceptions, exc_value, result, startLog, stopLog,
                   stopRet>>
    /\ UNCHANGED <<vrVars, dqVars, cdVars, monVars, fc, hold>>

\* add_task(id, task), called by a constructor: the ValueError of an id in
\* use leaves __init__, so no fixture comes out of the construction.
add_task(id) ==
    /\ tbpc = "constructing"
    /\ Len(tasks) <= MaxTasks
    /\ IF InUse(id, tasks)
       THEN /\ result' = Raised(Exc("ValueError", id))
            /\ tbpc' = "construct_failed"
            /\ UNCHANGED <<tasks, clock_of>>
       ELSE /\ tasks' = Append(tasks, id)
            /\ clock_of' = recursively_fullfill_needs_clock(
                               setattr_id(clock_of, id), id)
            /\ UNCHANGED <<tbpc, result>>
    /\ UNCHANGED <<stack, cursor, running, ended, setup_exceptions,
                   cleanup_exceptions, exc_value, startLog, stopLog, stopRet>>
    /\ UNCHANGED <<vrVars, dqVars, cdVars, monVars, fc, hold>>

\* The constructors return: the fixture exists.
AbstractTB_init_done ==
    /\ tbpc = "constructing"
    /\ tbpc' = "constructed"
    /\ UNCHANGED <<tasks, stack, cursor, running, ended, setup_exceptions,
                   cleanup_exceptions, exc_value, result, startLog, stopLog,
                   stopRet>>
    /\ UNCHANGED <<vrVars, dqVars, cdVars, monVars, auxVars>>

NextConstruct ==
    \/ AbstractTB_init
    \/ \E id \in TopIds \cup {"clock"} : add_task(id)
    \/ AbstractTB_init_done
    \/ aenter_begin
    \/ aenter_start_next
    \/ TBTask_start_child
    \/ TBTask_start_body
    \/ aenter_finish

SpecConstruct == InitConstruct /\ [][NextConstruct]_vars

\* C21: no id is ever registered twice; the add_task that is given an id in
\* use raises a ValueError about that id and leaves the registered ids as
\* they were; and after a construction that failed this way nothing is ever
\* started.
C21_DuplicateIdRejected ==
    /\ [](\A i, j \in DOMAIN tasks : tasks[i] = tasks[j] => i = j)
    /\ [][(tbpc # "construct_failed" /\ tbpc' = "construct_failed") =>
            /\ tasks' = tasks
            /\ result' = Raised(Exc("ValueError", result'.exc.what))
            /\ result'.exc.what \in Range(tasks)]_vars
    /\ [](tbpc = "construct_failed" =>
            startLog = <<>> /\ running = {} /\ stack = <<>> /\ ~ENABLED NextConstruct)

\* C21 witness: with another task already registered, a second add_task of
\* 'clock' has failed.
C21_Witness ==
    /\ tbpc = "construct_failed"
    /\ Len(tasks) >= 2
    /\ result = Raised(Exc("ValueError", "clock"))

----------------------------------------------------------------------------
(* Stopping the agents and the clock.  An agent is a cooperative TBTask:   *)
(* stop() sets the stop event and joins the body.  The body sees the event *)
(* where it awaits next_iteration_trigger; where it awaits the falling     *)
(* edge alone it first goes through its falling-edge step and the next     *)
(* rising edge.                                                            *)

Started == {"wait_rise", "wait_fall", "at_rise", "at_fall"}

\* ValRdyDriver.queue_state; the unbounded Queue() is never full.
Driver_queue_state(q) == IF q = <<>> THEN "EMPTY" ELSE "PARTIAL"

\* ValRdyProducer.queue_state, on the value v read from interface.val.
Producer_queue_state(q, v) ==
    IF q = <<>> /\ v = 0 THEN "EMPTY" ELSE "PARTIAL"

\* ValRdyDriver.on_test_finish: the assertion on the queue state.
on_test_finish(state) == IF state = "EMPTY" THEN "pass" ELSE "assert"

\* What a read of a signal returns right after setimmediatevalue(0) in the
\* same time step: the deposit is visible at once on one simulator and
\* only when the callback has returned on another.
ReadAfterImmediate(old) == {0, old}

\* A stop() has been called and has not returned.  The loop of
\* __stop_tasks awaits each stop() before it calls the next.
StopInProgress ==
    \E t \in {"producer", "consumer", "clock"} :
        stop_is_set(t) /\ t \notin DOMAIN stopRet

\* TBTask.stop of the Producer up to its join: the stop event is set, which
\* wakes a body that awaits next_iteration_trigger.
ValRdyProducer_stop ==
    /\ ppc \in Started
    /\ ~stop_is_set("producer") /\ ~StopInProgress
    /\ stopLog' = Append(stopLog, <<"begin", "producer">>)
    /\ ppc' = IF ppc = "wait_rise" THEN "at_rise" ELSE ppc
    /\ UNCHANGED <<clk, val, rdy, data, pend, pq, cq, penabled, cenabled,
                   pscopes, cscopes, cpc, rdy_is_ack, sent, got, cSawFall>>
    /\ UNCHANGED <<tasks, tbpc, stack, cursor, running, ended,
                   setup_exceptions, cleanup_exceptions, exc_value, result,
                   startLog, stopRet>>
    /\ UNCHANGED <<dqVars, cdVars, monVars, auxVars>>

\* The Producer's body leaves its loop and runs _driver_cleanup; the join
\* of stop() returns, the Monitor is stopped, on_test_finish runs and stop()
\* returns, all in the same time step.
ValRdyProducer_stop_joined ==
    /\ ppc = "at_rise" /\ stop_is_set("producer")
    /\ val' = 0
    /\ ppc' = "ended"
    /\ ended' = ended \cup {"producer"}
    /\ \E v \in ReadAfterImmediate(val) :
           stopRet' = Write(stopRet, "producer",
                            StopReturn(HookFaults(on_test_finish(
                                           Producer_queue_state(pq, v)),
                                       "producer"),
                                       FALSE, "producer"))
    /\ stopLog' = Append(stopLog, <<"end", "producer">>)
    /\ UNCHANGED <<clk, rdy, data, pend, pq, cq, penabled, cenabled, pscopes,
                   cscopes, cpc, rdy_is_ack, sent, got, cSawFall>>
    /\ UNCHANGED <<tasks, tbpc, stack, cursor, running, setup_exceptions,
                   cleanup_exceptions, exc_value, result, startLog>>
    /\ \E v \in ReadAfterImmediate(val) :
           mon' = [mon EXCEPT !["producer"] = StoppedMonitor(@, v, rdy, data)]
    /\ UNCHANGED <<dqVars, cdVars, auxVars>>

ValRdyConsumer_stop ==
    /\ cpc \in Started
    /\ ~stop_is_set("consumer") /\ ~StopInProgress
    /\ stopLog' = Append(stopLog, <<"begin", "consumer">>)
    /\ cpc' = IF cpc = "wait_rise" THEN "at_rise" ELSE cpc
    /\ UNCHANGED <<clk, val, rdy, data, pend, pq, cq, penabled, cenabled,
                   pscopes, cscopes, ppc, rdy_is_ack, sent, got, cSawFall>>
    /\ UNCHANGED <<tasks, tbpc, stack, cursor, running, ended,
                   setup_exceptions, cleanup_exceptions, exc_value, result,
                   startLog, stopRet>>
    /\ UNCHANGED <<dqVars, cdVars, monVars, auxVars>>

ValRdyConsumer_stop_joined ==
    /\ cpc = "at_rise" /\ stop_is_set("consumer")
    /\ rdy' = 0
    /\ cpc' = "ended"
    /\ ended' = ended \cup {"consumer"}
    /\ stopRet' = Write(stopRet, "consumer",
                        StopReturn(HookFaults(on_test_finish(
                                       Driver_queue_state(cq)), "consumer"),
                                   FALSE, "consumer"))
    /\ stopLog' = Append(stopLog, <<"end", "consumer">>)
    /\ UNCHANGED <<clk, val, data, pend, pq, cq, penabled, cenabled, pscopes,
                   cscopes, ppc, rdy_is_ack, sent, got, cSawFall>>
    /\ UNCHANGED <<tasks, tbpc, stack, cursor, running, setup_exceptions,
                   cleanup_exceptions, exc_value, result, startLog>>
    /\ \E r \in ReadAfterImmediate(rdy) :
           mon' = [mon EXCEPT !["consumer"] = StoppedMonitor(@, val, r, data)]
    /\ UNCHANGED <<dqVars, cdVars, auxVars>>

\* TBTask.stop of the clock: the stop event ends the wait of the clock's
\* body on its timer, the loop ends and the join returns.  No edge event
\* is set any more.
AbstractClock_stop ==
    /\ ppc \notin {"setup", "settle"} /\ cpc \notin {"setup", "settle"}
    /\ ~stop_is_set("clock") /\ ~StopInProgress
    /\ ended' = ended \cup {"clock"}
    /\ stopLog' = stopLog \o <<<<"begin", "clock">>, <<"end", "clock">>>>
    /\ stopRet' = Write(stopRet, "clock", None)
    /\ UNCHANGED vrVars
    /\ UNCHANGED <<tasks, tbpc, stack, cursor, running, setup_exceptions,
                   cleanup_exceptions, exc_value, result, startLog>>
    /\ UNCHANGED <<dqVars, cdVars, monVars, auxVars>>

NextTeardown ==
    \/ ProducerStep
    \/ ConsumerStep
    \/ ClockEdge
    \/ \E v \in Values : enqueue_values(v)
    \/ dequeue_value
    \/ ValRdyProducer_stop
    \/ ValRdyProducer_stop_joined
    \/ ValRdyConsumer_stop
    \/ ValRdyConsumer_stop_joined
    \/ AbstractClock_stop

\* A bench whose agents, and whose clock, are stopped at any moment.
SpecTeardown == InitInterface /\ [][NextTeardown]_vars

\* The interface when start() of both agents has started their Monitors
\* and is about to start the agents' own bodies.
InitMonitor ==
    /\ InitVR
    /\ tasks = <<>> /\ tbpc = "off"
    /\ stack = <<>> /\ cursor = 0
    /\ running = {} /\ ended = {}
    /\ setup_exceptions = <<>> /\ cleanup_exceptions = <<>>
    /\ exc_value = None /\ result = Pending
    /\ startLog = <<>> /\ stopLog = <<>> /\ stopRet = NoWrites
    /\ deq = <<>> /\ gen = NoGenerator /\ cd = NoCodec
    /\ mon = [o \in Agents |-> StartedMonitor(o, val, rdy, data)]
    /\ fc = NoClock /\ clock_of = NoWrites /\ hold = NoHold

NextMonitor ==
    \/ ProducerStep
    \/ ConsumerStep
    \/ \E o \in Agents : ValRdyMonitor_iteration(o)
    \/ ClockEdge
    \/ \E v \in Values : enqueue_values(v)
    \/ ValRdyProducer_stop
    \/ ValRdyProducer_stop_joined
    \/ ValRdyConsumer_stop
    \/ ValRdyConsumer_stop_joined
    \/ AbstractClock_stop

\* A bench whose agents are followed by their Monitors, and stopped at any
\* moment.
SpecMonitor == InitMonitor /\ [][NextMonitor]_vars

----------------------------------------------------------------------------
(* FakeClock: the body that emits the edges, and coroutines that await     *)
(* them.  Time is counted in half nanoseconds.                             *)

\* The period_ns a FakeClock is built with; AbstractTB builds it with 10.
Periods == {3, 10}

\* semi_period, the delay of the Timer of each iteration.
SemiPeriod(period_ns) == period_ns      \* period_ns / 2 ns, in half ns

\* A body that never toggles its state.
NextStateStuck(state) == state

\* state = not state
NextState(state) == ~state

\* The Event that an iteration sets and clears.
EdgeOf(state) == IF state THEN "rising" ELSE "falling"

\* The FakeClock is started: the locals of _task_coroutine are set and the
\* loop is about to run.  No task of the fixture and no agent is followed.
InitClock ==
    /\ fc \in {[pc |-> "loop", period_ns |-> p, state |-> TRUE, now |-> 0,
                due |-> 0, stop |-> FALSE, log |-> <<>>, waiting |-> {},
                woken |-> {}] : p \in Periods}
    /\ VRIdle
    /\ tasks = <<>> /\ tbpc = "off" /\ stack = <<>> /\ cursor = 0
    /\ running = {} /\ ended = {}
    /\ setup_exceptions = <<>> /\ cleanup_exceptions = <<>>
    /\ exc_value = None /\ result = Pending
    /\ startLog = <<>> /\ stopLog = <<>> /\ stopRet = NoWrites
    /\ deq = <<>> /\ gen = NoGenerator /\ cd = NoCodec
    /\ mon = NoMonitors
    /\ clock_of = NoWrites /\ hold = NoHold

\* One iteration of the loop of FakeClock._task_coroutine up to its await:
\* the state is toggled, the Event of the new state is set, which wakes
\* the coroutines that wait on it, and cleared.
FakeClock_iteration ==
    /\ fc.pc = "loop" /\ ~fc.stop
    /\ Len(fc.log) < MaxEdges
    /\ LET state == NextState(fc.state)
       IN fc' = [fc EXCEPT !.state = state,
                           !.log = Append(@, <<EdgeOf(state), fc.now>>),
                           !.woken = @ \cup ({EdgeOf(state)} \cap fc.waiting),
                           !.waiting = @ \ {EdgeOf(state)},
                           !.due = fc.now + SemiPeriod(fc.period_ns),
                           !.pc = "sleep"]
    /\ UNCHANGED <<vrVars, tbVars, dqVars, cdVars, monVars, clock_of, hold>>

\* The Timer of the First fires: the body is resumed.
FakeClock_timer ==
    /\ fc.pc = "sleep"
    /\ fc' = [fc EXCEPT !.now = fc.due, !.pc = "loop"]
    /\ UNCHANGED <<vrVars, tbVars, dqVars, cdVars, monVars, clock_of, hold>>

\* TBTask.stop of the clock: the stop event is set, which ends the wait
\* of the First.
FakeClock_stop ==
    /\ fc.pc \in {"loop", "sleep"} /\ ~fc.stop
    /\ fc' = [fc EXCEPT !.stop = TRUE, !.pc = "loop"]
    /\ UNCHANGED <<vrVars, tbVars, dqVars, cdVars, monVars, clock_of, hold>>

\* The loop condition fails: the body ends and the join of stop() returns.
FakeClock_exit ==
    /\ fc.pc = "loop" /\ fc.stop
    /\ fc' = [fc EXCEPT !.pc = "ended"]
    /\ UNCHANGED <<vrVars, tbVars, dqVars, cdVars, monVars, clock_of, hold>>

\* A coroutine awaits rising_edge() or falling_edge().
Edge_await(e) ==
    /\ fc.pc # "off" /\ e \notin fc.waiting \cup fc.woken
    /\ fc' = [fc EXCEPT !.waiting = @ \cup {e}]
    /\ UNCHANGED <<vrVars, tbVars, dqVars, cdVars, monVars, clock_of, hold>>

\* A coroutine woken by an edge runs on.
Edge_resume(e) ==
    /\ fc.pc # "off" /\ e \in fc.woken
    /\ fc' = [fc EXCEPT !.woken = @ \ {e}]
    /\ UNCHANGED <<vrVars, tbVars, dqVars, cdVars, monVars, clock_of, hold>>

NextClock ==
    \/ FakeClock_iteration
    \/ FakeClock_timer
    \/ FakeClock_stop
    \/ FakeClock_exit
    \/ \E e \in {"rising", "falling"} : Edge_await(e)
    \/ \E e \in {"rising", "falling"} : Edge_resume(e)

SpecClock == InitClock /\ [][NextClock]_vars

----------------------------------------------------------------------------
(* RisingEdgesHoldingAssertion: `await` of the helper runs do_await.       *)

\* What the assertion callable returns after each rising edge since the
\* call: one truth value per edge.
Assertions == [1..MaxCount -> BOOLEAN]

\* A helper whose assert never fails.
AssertionHoldsAlways(p, n) == TRUE

\* self.assertion() after the n-th rising edge awaited.
AssertionHolds(p, n) == p[n]

\* The helper is built with a count and an assertion, and awaited.
InitHold ==
    /\ hold \in {[pc |-> "call", count |-> c, assertion |-> p, i |-> 0,
                  edges |-> 0, out |-> Pending] :
                     c \in 0..MaxCount, p \in Assertions}
    /\ VRIdle
    /\ tasks = <<>> /\ tbpc = "off" /\ stack = <<>> /\ cursor = 0
    /\ running = {} /\ ended = {}
    /\ setup_exceptions = <<>> /\ cleanup_exceptions = <<>>
    /\ exc_value = None /\ result = Pending
    /\ startLog = <<>> /\ stopLog = <<>> /\ stopRet = NoWrites
    /\ deq = <<>> /\ gen = NoGenerator /\ cd = NoCodec
    /\ mon = NoMonitors
    /\ fc = NoClock /\ clock_of = NoWrites

\* do_await: the loop `for i in range(self.count)` takes its next index
\* and awaits the rising edge, or is over and do_await returns.
do_await_next ==
    /\ hold.pc \in {"call", "loop"}
    /\ hold' = IF hold.i < hold.count
               THEN [hold EXCEPT !.pc = "await"]
               ELSE [hold EXCEPT !.pc = "done", !.out = Returned]
    /\ UNCHANGED <<vrVars, tbVars, dqVars, cdVars, monVars, fc, clock_of>>

\* RisingEdge(top.clk) fires: the coroutine is resumed.
do_await_edge ==
    /\ hold.pc = "await"
    /\ hold' = [hold EXCEPT !.pc = "assert", !.edges = @ + 1]
    /\ UNCHANGED <<vrVars, tbVars, dqVars, cdVars, monVars, fc, clock_of>>

\* assert self.assertion(), self.message(i)
do_await_assert ==
    /\ hold.pc = "assert"
    /\ hold' = IF AssertionHolds(hold.assertion, hold.edges)
               THEN [hold EXCEPT !.pc = "loop", !.i = @ + 1]
               ELSE [hold EXCEPT !.pc = "done",
                                 !.out = Raised(Exc("AssertionError", hold.i))]
    /\ UNCHANGED <<vrVars, tbVars, dqVars, cdVars, monVars, fc, clock_of>>

NextHold ==
    \/ do_await_next
    \/ do_await_edge
    \/ do_await_assert

SpecHold == InitHold /\ [][NextHold]_vars

\* The same bench under a scheduler that runs every woken coroutine, with
\* a clock that keeps ticking until it is stopped.
SpecTeardownFair ==
    /\ InitInterface /\ [][NextTeardown]_vars
    /\ WF_vars(ClockEdge)
    /\ WF_vars(ProducerStep)
    /\ WF_vars(ConsumerStep)
    /\ WF_vars(ValRdyProducer_stop_joined)
    /\ WF_vars(ValRdyConsumer_stop_joined)

\* The stop() of task t returns in this step.
StopReturns(t) == t \in DOMAIN stopRet' /\ t \notin DOMAIN stopRet

\* C12: a Producer or a Consumer whose FIFO holds an item when its stop()
\* runs on_test_finish returns a fault from stop(); so does a Producer whose
\* FIFO is empty but which holds valid asserted on a value that no ready
\* has met.
C12_DrainedQueueFault ==
    [][/\ (StopReturns("producer") /\ pq # <<>>) =>
              stopRet'["producer"] # None
       /\ (StopReturns("consumer") /\ cq # <<>>) =>
              stopRet'["consumer"] # None
       /\ (StopReturns("producer") /\ pq = <<>> /\ val = 1 /\ rdy = 0) =>
              stopRet'["producer"] # None]_vars

\* A write of x to interface.val is waiting to be applied.
PendingVal(p, x) == "val" \in DOMAIN p /\ p["val"] = x

\* C14 as stated: while valid stays 1 the data field does not change;
\* valid goes from 1 to 0 only by the write the Producer made when it saw
\* valid and ready both 1 at a rising edge; and a value is latched (valid
\* raised, data changed) only by the falling-edge step, with valid at 0.
C14_Original ==
    [][/\ (val = 1 /\ val' = 1) => data' = data
       /\ (val = 1 /\ val' = 0) => PendingVal(pend, 0)
       /\ (PendingVal(pend', 0) /\ ~PendingVal(pend, 0)) =>
              \/ ppc = "setup"
              \/ ppc = "at_rise" /\ val = 1 /\ rdy = 1
       /\ (PendingVal(pend', 1) /\ ~PendingVal(pend, 1)) =>
              ppc = "at_fall" /\ ~clk /\ val = 0
       /\ data' # data => val = 0 /\ val' = 1]_vars

\* C14 amended: the same, except that valid also goes from 1 to 0, with no
\* transfer, when the Producer is stopped: its cleanup forces valid to 0.
C14_HoldUntilTransferOrStop ==
    [][/\ (val = 1 /\ val' = 1) => data' = data
       /\ (val = 1 /\ val' = 0) =>
              \/ PendingVal(pend, 0)
              \/ ppc # "ended" /\ ppc' = "ended"
       /\ (PendingVal(pend', 0) /\ ~PendingVal(pend, 0)) =>
              \/ ppc = "setup"
              \/ ppc = "at_rise" /\ val = 1 /\ rdy = 1
       /\ (PendingVal(pend', 1) /\ ~PendingVal(pend, 1)) =>
              ppc = "at_fall" /\ ~clk /\ val = 0
       /\ data' # data => val = 0 /\ val' = 1]_vars

\* C14 witness: after a first transfer the Producer presents its second
\* value; a rising edge has passed with ready at 0 and the Producer still
\* holds valid and that value.
C14_Witness ==
    /\ clk /\ ppc = "wait_fall" /\ cpc = "wait_fall"
    /\ val = 1 /\ rdy = 0
    /\ Len(got) = 1 /\ Len(sent) >= 2
    /\ data = write_to_signal(Message, sent[2])
    /\ sent[2] # sent[1]

\* C15: the Producer writes 1 to valid only in its falling-edge step, and
\* only when it is enabled there with a non-empty FIFO (and valid at 0);
\* valid goes from 0 to 1 only by that write; and once the setup is over
\* valid is 0 as long as nothing was taken from the FIFO.
C15_ValidRaisedOnlyWhenEnabledAndQueued ==
    [][/\ (PendingVal(pend', 1) /\ ~PendingVal(pend, 1)) =>
              /\ ppc = "at_fall" /\ ~clk
              /\ penabled /\ pq # <<>> /\ val = 0
       /\ (val = 0 /\ val' = 1) => PendingVal(pend, 1)
       /\ (ppc' \in Started /\ pq' = sent') =>
              val' = 0 /\ ~PendingVal(pend', 1)]_vars

\* C15 witness: the Producer, enabled and with one item queued, has taken
\* it at a falling edge and written 1 to valid, which still reads 0.
C15_Witness ==
    /\ ~clk /\ ppc = "wait_rise"
    /\ PendingVal(pend, 1) /\ val = 0
    /\ penabled /\ pscopes = <<>>
    /\ Len(sent) = 1 /\ pq = <<>> /\ got = <<>>
    /\ pend["data"] = write_to_signal(Message, sent[1])

\* A write of x to interface.rdy is waiting to be applied.
PendingRdy(p, x) == "rdy" \in DOMAIN p /\ p["rdy"] = x

\* C16: with rdy_is_ack false, the falling-edge step of the Consumer writes
\* to ready the value of its enabled flag at that step (its FIFO is never
\* full); ready is written by no other step but the setup, which writes 0,
\* and, while the Consumer runs, changes only when such a write is applied:
\* it is 0 from the setup to the first falling edge and follows no change
\* of enabled in between.
C16_ReadyFollowsEnabled ==
    [][~rdy_is_ack =>
         /\ (cpc = "at_fall" /\ cpc' = "wait_rise") =>
                PendingRdy(pend', IF cenabled THEN 1 ELSE 0)
         /\ (cpc = "setup" /\ cpc' = "settle") => PendingRdy(pend', 0)
         /\ (cpc = "settle" /\ cpc' = "wait_fall") => rdy' = 0
         /\ (\E x \in {0, 1} : PendingRdy(pend', x) /\ ~PendingRdy(pend, x)) =>
                cpc \in {"setup", "at_fall"}
         /\ rdy' # rdy =>
                \/ PendingRdy(pend, rdy')
                \/ cpc # "ended" /\ cpc' = "ended"]_vars

\* C16 witness: the Consumer, ready so far, ran a falling-edge step inside
\* a disabled() scope and withdrew ready.
C16_Witness ==
    /\ ~rdy_is_ack /\ ~clk /\ cpc = "wait_rise"
    /\ ~cenabled /\ rdy = 1 /\ PendingRdy(pend, 0)

\* C17: with rdy_is_ack true, the falling-edge step of the Consumer writes
\* 1 to ready exactly when it reads valid at 1 and is enabled; so, facing a
\* running Producer, at every rising edge the Consumer samples ready at 1
\* comes with valid at 1, and ready is 1 exactly when the Consumer takes
\* the value.
C17_ReadyIsAck ==
    [][rdy_is_ack =>
         /\ (cpc = "at_fall" /\ cpc' = "wait_rise") =>
                PendingRdy(pend', IF val = 1 /\ cenabled THEN 1 ELSE 0)
         /\ (cpc = "at_rise" /\ cpc' = "wait_fall") =>
                /\ rdy = 1 => val = 1
                /\ rdy = 1 <=> got' # got]_vars

\* C17 witness: ready is an acknowledge; the Consumer has just taken a
\* second value at a rising edge with ready at 1.
C17_Witness ==
    /\ rdy_is_ack /\ clk /\ cpc = "wait_fall"
    /\ rdy = 1 /\ val = 1
    /\ Len(got) = 2 /\ got = SubSeq(sent, 1, 2)
    /\ got[2] = from_signal(Message, data)

\* C18: the setup of an agent writes its inert values (Producer: valid 0
\* and zeroed data; Consumer: ready 0); the agent gets to its loop, which is
\* when ready_event is set and start() returns, only from the end of the
\* settling step that follows the setup, and the signals then read those
\* values; its rising-edge step runs only in the loop.
C18_StartReturnsAfterSetup ==
    [][/\ (ppc = "setup" /\ ppc' # "setup") =>
              /\ ppc' = "settle" /\ PendingVal(pend', 0)
              /\ pend'["data"] = write_to_signal(Message, zeroed(Message))
       /\ (cpc = "setup" /\ cpc' # "setup") =>
              cpc' = "settle" /\ PendingRdy(pend', 0)
       /\ (ppc \notin Started /\ ppc' \in Started) =>
              /\ ppc = "settle" /\ val' = 0
              /\ data' = write_to_signal(Message, zeroed(Message))
       /\ (cpc \notin Started /\ cpc' \in Started) =>
              cpc = "settle" /\ rdy' = 0
       /\ ppc' = "at_rise" => ppc \in Started
       /\ cpc' = "at_rise" => cpc \in Started]_vars

\* C18 witness: the Producer is in its loop with valid at 0 and zeroed
\* data, while the Consumer has not run its setup yet and ready still has
\* the value the simulation began with, 1.
C18_Witness ==
    /\ ppc = "wait_fall" /\ val = 0
    /\ data = write_to_signal(Message, zeroed(Message))
    /\ cpc = "setup" /\ rdy = 1

\* The body of task t, at position pc, waits for an edge of the clock and
\* nothing else can resume it: it awaits the falling edge alone, or it
\* awaits next_iteration_trigger after its stop event was set.
WaitsForEdgeOnly(pc, t) ==
    \/ pc = "wait_fall"
    \/ pc = "wait_rise" /\ stop_is_set(t)

\* C19: once the clock is stopped, no coroutine is left waiting for an
\* edge that only the clock could have delivered.
C19_NoSubscriberBlocked ==
    "clock" \in ended =>
        /\ ~WaitsForEdgeOnly(ppc, "producer")
        /\ ~WaitsForEdgeOnly(cpc, "consumer")

----------------------------------------------------------------------------
(* ValRdyConsumer.dequeue_values(n): an async generator.  Test code        *)
(* creates it and asks it for one item after the other.                    *)

\* A loop that goes on while the count is below n.
GeneratorContinuesBelow(count, n) == count < n

\* The loop condition of dequeue_values.
GeneratorContinues(count, n) == count # n

dequeue_values(n) ==
    /\ AgentsReady
    /\ gen.state \in {"none", "ended"}
    /\ gen' = [n |-> n, count |-> 0, state |-> "active"]
    /\ UNCHANGED <<vrVars, tbVars, deq, cdVars, monVars, auxVars>>

\* The generator is asked for an item and its loop goes on: it awaits
\* dequeue_value(), which suspends while the queue is empty, and yields.
dequeue_values_yield ==
    /\ gen.state = "active"
    /\ GeneratorContinues(gen.count, gen.n)
    /\ cq # <<>>
    /\ cq' = Tail(cq)
    /\ deq' = Append(deq, Head(cq))
    /\ gen' = [gen EXCEPT !.count = @ + 1]
    /\ UNCHANGED <<clk, val, rdy, data, pend, pq, penabled, cenabled, pscopes,
                   cscopes, ppc, cpc, rdy_is_ack, sent, got, cSawFall>>
    /\ UNCHANGED <<tbVars, cdVars, monVars, auxVars>>

\* The generator is asked for an item and its loop is over: it ends.
dequeue_values_end ==
    /\ gen.state = "active"
    /\ ~GeneratorContinues(gen.count, gen.n)
    /\ gen' = [gen EXCEPT !.state = "ended"]
    /\ UNCHANGED <<vrVars, tbVars, deq, cdVars, monVars, auxVars>>

NextDequeue ==
    \/ ProducerStep
    \/ ConsumerStep
    \/ ClockEdge
    \/ \E v \in Values : enqueue_values(v)
    \/ dequeue_value
    \/ \E n \in -1..MaxN : dequeue_values(n)
    \/ dequeue_values_yield
    \/ dequeue_values_end

SpecDequeue == InitInterface /\ [][NextDequeue]_vars

\* C20: what has been dequeued, followed by what is still queued, is what
\* the Consumer put, in that order, and nothing is dequeued from an empty
\* queue; each item dequeue_values yields is the oldest one not yet
\* dequeued; with n >= 0 the generator yields no more than n items, can end
\* as soon as it has yielded n (at once for n = 0) and ends only then; with
\* n = -1 it never ends.
C20_DequeueFifo ==
    /\ [](deq \o cq = got)
    /\ [](gen.n >= 0 => gen.count <= gen.n)
    /\ [](gen.state = "ended" => gen.n >= 0 /\ gen.count = gen.n)
    /\ []((gen.state = "active" /\ gen.count = gen.n) =>
              ENABLED dequeue_values_end)
    /\ [][/\ deq' # deq =>
                 cq # <<>> /\ deq' = Append(deq, got[Len(deq) + 1])
          /\ gen'.count = gen.count + 1 =>
                 deq' = Append(deq, got[Len(deq) + 1])]_vars

\* C20 witness: dequeue_values(2) has yielded two different values, in the
\* order they were sent, and has ended.
C20_Witness ==
    /\ gen.state = "ended" /\ gen.n = 2 /\ gen.count = 2
    /\ deq = SubSeq(sent, 1, 2) /\ deq[1] # deq[2]

----------------------------------------------------------------------------
(* Test code using the SVStruct codec.  A call is a record: the schema     *)
(* (the SVStruct subclass), the kind of argument, the argument, the signal *)
(* or vector in between, and the result.  A vector, the binstr of a        *)
(* signal included, is a sequence of bits, most significant first.         *)

\* Scaled-down UnitTestPassthrough and WritebackArbiterData.
UnitTestPassthrough == Struct(<<Leaf(2)>>)
WritebackArbiterData == Struct(<<Leaf(1), UnitTestPassthrough>>)

Schemas == {Message, MessageMetadata, UnitTestPassthrough, WritebackArbiterData}

RECURSIVE Pow2(_)
Pow2(n) == IF n = 0 THEN 1 ELSE 2 * Pow2(n - 1)

\* The instances of a schema: every field holds a LogicArray of its width
\* or an instance of its schema.
RECURSIVE WellFormed(_)
WellFormed(cls) ==
    IF cls.kind = "leaf" THEN 0..(Pow2(cls.bits) - 1)
    ELSE LET F[i \in 0..Len(cls.fields)] ==
                 IF i = 0 THEN {<<>>}
                 ELSE {Append(t, x) : t \in F[i - 1],
                                      x \in WellFormed(cls.fields[i])}
         IN F[Len(cls.fields)]

\* The vectors of n bits.
Vectors(n) == {LogicArray(x, n) : x \in 0..(Pow2(n) - 1)}

\* What a codec call gives: a value, or the exception it raised.
Ok(x) == [ok |-> TRUE, val |-> x, exc |-> None]
Err(e) == [ok |-> FALSE, val |-> <<>>, exc |-> e]

\* LogicArray.__getitem__ of the slice [msb:lsb]: whether both indexes are
\* in the range Len(raw)-1 downto 0; otherwise it raises IndexError.
InRange(raw, msb, lsb) == msb <= Len(raw) - 1 /\ lsb >= 0 /\ lsb <= msb

\* from_logicarray with the IndexError of its slices.  The slice handed to
\* a nested schema has that schema's width, so only the slices of the
\* outermost call can be out of range.
from_logicarray_call(cls, raw) ==
    IF \E i \in 1..Len(cls.fields) :
           ~InRange(raw, FieldOffset(cls, i) + bits(cls.fields[i]) - 1,
                    FieldOffset(cls, i))
    THEN Err(Exc("IndexError", "raw"))
    ELSE Ok(from_logicarray(cls, raw))

\* write_to_signal on a signal that is not one packed handle: every leaf
\* field is written to the signal of its name.
RECURSIVE write_to_signal_fields(_, _)
write_to_signal_fields(cls, v) ==
    IF cls.kind = "leaf" THEN LogicArray(v, cls.bits)
    ELSE [i \in 1..Len(cls.fields) |->
             write_to_signal_fields(cls.fields[i], v[i])]

\* from_signal on such a signal: every leaf field is read from the signal
\* of its name.
RECURSIVE from_signal_fields(_, _)
from_signal_fields(cls, signal) ==
    IF cls.kind = "leaf" THEN integer(signal)
    ELSE [i \in 1..Len(cls.fields) |->
             from_signal_fields(cls.fields[i], signal[i])]

\* The bits of the field signals of a struct taken as one packed vector:
\* the member declared first is the most significant.
RECURSIVE Packed(_, _)
Packed(cls, signal) ==
    IF cls.kind = "leaf" THEN signal
    ELSE LET F[i \in 0..Len(cls.fields)] ==
                 IF i = 0 THEN <<>>
                 ELSE F[i - 1] \o Packed(cls.fields[i], signal[i])
         IN F[Len(cls.fields)]

\* The field signals of a struct whose packed vector is flat.
RECURSIVE Members(_, _)
Members(cls, flat) ==
    IF cls.kind = "leaf" THEN flat
    ELSE [i \in 1..Len(cls.fields) |->
             LET before == BitsBefore(cls, i)
             IN Members(cls.fields[i],
                        SubSeq(flat, before + 1,
                               before + bits(cls.fields[i])))]

\* How far the length of a vector given to from_logicarray is from the
\* width of the schema.
MaxOff == 1

\* The arguments of the calls on instances and on vectors.
CodecInputs ==
    UNION {
        {[pc |-> "input", kind |-> "value", schema |-> s, arg |-> v,
          how |-> "", sig |-> <<>>, out |-> Ok(<<>>)] : v \in WellFormed(s)}
        \cup
        {[pc |-> "input", kind |-> "raw", schema |-> s, arg |-> r,
          how |-> "", sig |-> <<>>, out |-> Ok(<<>>)] :
             r \in UNION {Vectors(n) : n \in (bits(s) - MaxOff)..(bits(s) + MaxOff)}}
        : s \in Schemas}

\* v.into_logicarray()
SVStruct_into_logicarray ==
    /\ cd.pc = "input" /\ cd.kind = "value"
    /\ cd' = [cd EXCEPT !.pc = "raw", !.sig = into_logicarray(cd.schema, cd.arg)]
    /\ UNCHANGED <<vrVars, tbVars, dqVars, monVars, auxVars>>

\* The test hands a vector of its own to from_logicarray.
SVStruct_raw ==
    /\ cd.pc = "input" /\ cd.kind = "raw"
    /\ cd' = [cd EXCEPT !.pc = "raw", !.sig = cd.arg]
    /\ UNCHANGED <<vrVars, tbVars, dqVars, monVars, auxVars>>

\* cls.from_logicarray(raw)
SVStruct_from_logicarray ==
    /\ cd.pc = "raw"
    /\ cd' = [cd EXCEPT !.pc = "done",
                        !.out = from_logicarray_call(cd.schema, cd.sig)]
    /\ UNCHANGED <<vrVars, tbVars, dqVars, monVars, auxVars>>

\* v.write_to_signal(signal); the signal is one packed handle under
\* Verilator, or it is read and written field by field.
SVStruct_write_to_signal(how) ==
    /\ cd.pc = "input" /\ cd.kind = "value"
    /\ cd' = [cd EXCEPT
                !.pc = "signal", !.how = how,
                !.sig = IF how = "packed"
                        THEN write_to_signal(cd.schema, cd.arg)
                        ELSE write_to_signal_fields(cd.schema, cd.arg)]
    /\ UNCHANGED <<vrVars, tbVars, dqVars, monVars, auxVars>>

\* cls.from_signal(signal), once the write has been applied.
SVStruct_from_signal ==
    /\ cd.pc = "signal"
    /\ cd' = [cd EXCEPT
                !.pc = "done",
                !.out = IF cd.how = "packed"
                        THEN Ok(from_signal(cd.schema, cd.sig))
                        ELSE Ok(from_signal_fields(cd.schema, cd.sig))]
    /\ UNCHANGED <<vrVars, tbVars, dqVars, monVars, auxVars>>

\* from_flat.  A flat name is the sequence of the field names that the
\* code gets by splitting it at every '-'; a field is named by its position
\* in the schema, and NoField names no field of any schema.
NoField == 9

RECURSIVE Leaves(_)
Leaves(cls) ==
    IF cls.kind = "leaf" THEN {<<>>}
    ELSE UNION {{<<i>> \o p : p \in Leaves(cls.fields[i])} :
                   i \in 1..Len(cls.fields)}

\* Names that are not of the schema: at the top level, and nested in a
\* field that is a struct.
Unknown(cls) ==
    {<<NoField>>} \cup
    {<<i, NoField>> : i \in {j \in 1..Len(cls.fields) :
                                cls.fields[j].kind = "struct"}}

RECURSIVE At(_, _)
At(v, p) == IF p = <<>> THEN v ELSE At(v[Head(p)], Tail(p))

\* The keyword arguments given to from_flat: some of the leaves of an
\* instance under their flat names, and some names that are of no field.
Kwargs(cls) ==
    {[k \in D \cup U |-> IF k \in U THEN 0 ELSE At(v, k)] :
        D \in SUBSET Leaves(cls), U \in SUBSET Unknown(cls),
        v \in WellFormed(cls)}

\* from_flat: HasKey is `field_name in unflat_kw`, IsDict whether
\* unflat_kw[field_name] is a dict, and Unflattened that dict, as
\* __unflatten builds it.  A name that is of no field is never looked at.
RECURSIVE from_flat(_, _)
from_flat(cls, kw) ==
    LET HasKey(name) == \E k \in DOMAIN kw : k[1] = name
        IsDict(name) == \E k \in DOMAIN kw : Len(k) > 1 /\ k[1] = name
        Unflattened(name) ==
            [p \in {Tail(k) : k \in {x \in DOMAIN kw :
                                        Len(x) > 1 /\ x[1] = name}} |->
                kw[<<name>> \o p]]
    IN
    IF \E i \in 1..Len(cls.fields) : ~HasKey(i)
    THEN Err(Exc("KeyError", "name"))
    ELSE LET kws == [i \in 1..Len(cls.fields) |->
                        IF cls.fields[i].kind = "struct" /\ IsDict(i)
                        THEN from_flat(cls.fields[i], Unflattened(i))
                        ELSE Ok(kw[<<i>>])]
         IN IF \E i \in 1..Len(cls.fields) : ~kws[i].ok
            THEN Err(Exc("KeyError", "name"))
            ELSE Ok([i \in 1..Len(cls.fields) |-> kws[i].val])

\* BinaryValue.__getitem__ of the slice [first:second] of a signal value:
\* a signal value is big-endian, its index 0 is the first bit of binstr.
BinaryValueSlice(binstr, first, second) == SubSeq(binstr, first + 1, second + 1)

\* An index taken as it is.
r_indexSame(array_length, index) == index

r_index(array_length, index) == array_length - index - 1

\* from_array_signal_single on one concatenated vector (Verilator).
from_array_signal_single(cls, signal, index) ==
    LET element_bits == bits(cls)
        total_bits == Len(signal)
        array_length == total_bits \div element_bits
        lsb == element_bits * r_index(array_length, index)
        msb == lsb + element_bits - 1
    IN from_logicarray_call(cls, BinaryValueSlice(signal, lsb, msb))

\* Elements in the vector of an array signal, and the element schemas.
MaxArray == 2
ArraySchemas == {MessageMetadata, WritebackArbiterData}

\* The arguments of the calls of from_flat and from_array_signal_single.
NamedInputs ==
    UNION {
        {[pc |-> "input", kind |-> "flat", schema |-> s, arg |-> kw,
          how |-> "", sig |-> <<>>, out |-> Ok(<<>>)] : kw \in Kwargs(s)}
        : s \in Schemas}
    \cup
    UNION {
        {[pc |-> "input", kind |-> "array", schema |-> s,
          arg |-> [signal |-> r, index |-> i],
          how |-> "", sig |-> <<>>, out |-> Ok(<<>>)] :
             r \in Vectors(bits(s) * n), i \in 0..(n - 1)}
        : s \in ArraySchemas, n \in 1..MaxArray}

\* cls.from_flat(**kwargs)
SVStruct_from_flat ==
    /\ cd.pc = "input" /\ cd.kind = "flat"
    /\ cd' = [cd EXCEPT !.pc = "done", !.out = from_flat(cd.schema, cd.arg)]
    /\ UNCHANGED <<vrVars, tbVars, dqVars, monVars, auxVars>>

\* cls.from_array_signal_single(signal, index)
SVStruct_from_array_signal_single ==
    /\ cd.pc = "input" /\ cd.kind = "array"
    /\ cd' = [cd EXCEPT
                !.pc = "done",
                !.out = from_array_signal_single(cd.schema, cd.arg.signal,
                                                 cd.arg.index)]
    /\ UNCHANGED <<vrVars, tbVars, dqVars, monVars, auxVars>>

InitCodec ==
    /\ cd \in CodecInputs \cup NamedInputs
    /\ VRIdle
    /\ tasks = <<>> /\ tbpc = "off" /\ stack = <<>> /\ cursor = 0
    /\ running = {} /\ ended = {}
    /\ setup_exceptions = <<>> /\ cleanup_exceptions = <<>>
    /\ exc_value = None /\ result = Pending
    /\ startLog = <<>> /\ stopLog = <<>> /\ stopRet = NoWrites
    /\ deq = <<>> /\ gen = NoGenerator
    /\ mon = NoMonitors
    /\ fc = NoClock /\ clock_of = NoWrites /\ hold = NoHold

NextCodec ==
    \/ SVStruct_into_logicarray
    \/ SVStruct_raw
    \/ SVStruct_from_logicarray
    \/ \E how \in {"packed", "fields"} : SVStruct_write_to_signal(how)
    \/ SVStruct_from_signal
    \/ SVStruct_from_flat
    \/ SVStruct_from_array_signal_single

SpecCodec == InitCodec /\ [][NextCodec]_vars

----------------------------------------------------------------------------
(* Observations on the histories.                                          *)

\* The tasks of the events of one kind about tasks of S, in order.
Names(log, kind, S) ==
    LET F[i \in 0..Len(log)] ==
            IF i = 0 THEN <<>>
            ELSE IF log[i][1] = kind /\ log[i][2] \in S
                 THEN Append(F[i - 1], log[i][2])
                 ELSE F[i - 1]
    IN F[Len(log)]

\* The order in which TBTask.start reaches the bodies of the tree of t.
RECURSIVE PostOrder(_)
PostOrder(t) ==
    LET F[i \in 0..Len(subtasks(t))] ==
            IF i = 0 THEN <<>> ELSE F[i - 1] \o PostOrder(subtasks(t)[i])
    IN Append(F[Len(subtasks(t))], t)

Subtree(t) == Range(PostOrder(t))

TopStarts == Names(startLog, "started", Range(tasks))
TopStops == Names(stopLog, "begin", Range(tasks))
StartFailed == Range(Names(startLog, "failed", UNION {Subtree(id) : id \in Range(tasks)}))

\* The top-level tasks whose stop() returned a fault.
Yielded(id) == id \in DOMAIN stopRet /\ stopRet[id] # None

\* Whether exception e is among the exceptions of group g or of one of the
\* groups g contains.
Contains(g, e) ==
    \/ e \in Range(g.excs)
    \/ \E i \in DOMAIN g.excs : e \in Range(g.excs[i].excs)

----------------------------------------------------------------------------
(* Claims about the fixture.                                               *)

\* C3: when the stop() of two different top-level tasks each yielded a
\* fault, what leaving the fixture raises is a TBFailure that contains both
\* faults, each with the note naming its task.
C3_BothFaultsAnnotated ==
    tbpc = "exited" =>
        \A A \in Range(tasks), B \in Range(tasks) :
            (A # B /\ Yielded(A) /\ Yielded(B)) =>
                /\ result.kind = "raised"
                /\ result.exc.cls = "TBFailure"
                /\ Contains(result.exc,
                            add_note(stopRet[A], <<"Raised in task", A>>))
                /\ Contains(result.exc,
                            add_note(stopRet[B], <<"Raised in task", B>>))

\* C4: no call of TBTask.stop ever raises.
C4_StopNeverRaises ==
    \A i \in DOMAIN stopLog : stopLog[i][1] # "raise"

\* C5: once the fixture has been left, stop() has been called on every
\* registered top-level task, the clock included.
C5_EveryTaskStopped ==
    tbpc = "exited" =>
        \A id \in Range(tasks) : <<"begin", id>> \in Range(stopLog)

\* C6: when the protected body raised an exception E, leaving the fixture
\* raises a TBFailure that contains E; and leaving the fixture raises
\* nothing only if the body raised nothing and no stop() yielded a fault.
C6_BodyFaultSurfaces ==
    tbpc = "exited" =>
        /\ IsException(exc_value) =>
               /\ result.kind = "raised"
               /\ result.exc.cls = "TBFailure"
               /\ exc_value \in Range(result.exc.excs)
        /\ result.kind = "returned" =>
               /\ exc_value = None
               /\ \A id \in Range(tasks) : ~Yielded(id)

\* C7: when a start failed, __aenter__ raises one TBFailure that contains
\* every start failure, and the test body is never reached.
C7_EnterFailsOnStartFailure ==
    /\ tbpc = "enter_failed" =>
           /\ result.kind = "raised"
           /\ result.exc.cls = "TBFailure"
           /\ \A t \in StartFailed :
                  Exc("Exception", t) \in Range(result.exc.excs)
    /\ tbpc \in {"body", "exiting", "exited"} => StartFailed = {}

\* C7 witness: the enter sequence failed with two start failures.
C7_Witness ==
    /\ tbpc = "enter_failed"
    /\ Cardinality(StartFailed) >= 2
    /\ Len(result.exc.excs) >= 2

\* C8: when the stop() of the clock begins, the stop() of every other
\* registered top-level task has returned.
C8_ClockStoppedLast ==
    <<"begin", "clock">> \in Range(stopLog) =>
        \A id \in Range(tasks) \ {"clock"} :
            <<"end", id>> \in Range(stopLog)

\* C8 witness: a fixture with several tasks was left and the clock stopped.
C8_Witness ==
    /\ tbpc = "exited"
    /\ Len(tasks) >= 3
    /\ <<"end", "clock">> \in Range(stopLog)

\* C9 as stated: the top-level tasks are stopped in the reverse of the
\* order in which they were started.
C9_Original ==
    tbpc = "exited" => IsPrefix(TopStops, Reverse(TopStarts))

\* C9 amended: the top-level tasks other than the clock are stopped in the
\* same order in which they were started, and the clock after them.
C9_StopInStartOrderClockLast ==
    tbpc \in {"exiting", "exited"} =>
        IsPrefix(TopStops, SelectSeq(TopStarts, NotClock) \o <<"clock">>)

\* C9 witness: a fixture with several tasks besides the clock was left and
\* all of them were stopped.
C9_Witness ==
    /\ tbpc = "exited"
    /\ Len(tasks) >= 3
    /\ Len(TopStops) = Len(tasks)
    /\ result.kind = "returned"

\* C10: the bodies of the tree of every top-level task are started in
\* depth-first order, children in listed order before their parent, so when
\* a body has been started every task of its subtree is running.
C10_ChildrenStartFirst ==
    /\ \A id \in Range(tasks) :
           IsPrefix(Names(startLog, "started", Subtree(id)), PostOrder(id))
    /\ \A id \in Range(tasks) : \A t \in Subtree(id) :
           t \in running => Subtree(t) \subseteq running

\* C10 witness: the body of a task with children and a grandchild runs.
C10_Witness ==
    /\ "a" \in running
    /\ Names(startLog, "started", Subtree("a")) = <<"a11", "a1", "a2", "a">>

\* C11: when a start() failed, no task is started after the failure, and
\* once the run is over every task whose body was started has been stopped.
C11_NoLeakAfterStartFailure ==
    /\ \A i \in DOMAIN startLog : \A j \in DOMAIN startLog :
           (i < j /\ startLog[i][1] = "failed") => startLog[j][1] # "started"
    /\ (StartFailed # {} /\ ~ENABLED NextTB) => running \subseteq ended

\* What the stop() that returns in this step returns: to its parent's
\* stop(), which appends it to its list unless it is None, or to the loop of
\* __stop_tasks.
StopReturned ==
    IF Len(stack) > 1
    THEN LET mine == stack[Len(stack) - 1].exceptions
             theirs == stack'[Len(stack')].exceptions
         IN IF Len(theirs) > Len(mine) THEN theirs[Len(theirs)] ELSE None
    ELSE stopRet'[Top.task]

\* The faults on_test_finish of t can leave in the list of stop().
HookFaultsOf(t) == {HookFaults(h, t) : h \in {"pass", "assert", "error"}}

\* C22: when a stop() returns, the faults it found are those its children
\* returned, in order, and after them the fault of its own on_test_finish,
\* if any.  With no fault it returns None; with no fault from a child and
\* one of its own it returns that one fault, not wrapped again; with a
\* fault from a child it returns one TBCleanupException about the task that
\* holds every fault found, in order.
C22_StopReturnsFaultOrAggregate ==
    /\ [](\A i \in DOMAIN stack :
            stack[i].op = "stop" =>
                stack[i].subtask_raised = (stack[i].exceptions # <<>>))
    /\ [][(stack # <<>> /\ Top.op = "stop"
           /\ Len(stopLog') > Len(stopLog)
           /\ stopLog'[Len(stopLog')] = <<"end", Top.task>>) =>
          \E own \in HookFaultsOf(Top.task) :
              LET found == Top.exceptions \o own
              IN /\ found = <<>> => StopReturned = None
                 /\ (Top.exceptions = <<>> /\ Len(own) = 1) =>
                        StopReturned = own[1]
                 /\ Top.exceptions # <<>> =>
                        StopReturned = TBCleanupException(found, Top.task)]_vars

\* C22 witness: the stop() of a returned the aggregate of a fault of a child
\* and of the fault of its own hook, the stop() of b returned the single
\* fault of its hook, and the stop() of c returned nothing.
C22_Witness ==
    /\ DOMAIN stopRet = {"a", "b", "c"}
    /\ stopRet["a"].cls = "TBCleanupException" /\ stopRet["a"].what = "a"
    /\ Len(stopRet["a"].excs) = 2
    /\ stopRet["a"].excs[2] \in {f[1] : f \in HookFaultsOf("a") \ {<<>>}}
    /\ stopRet["b"] = TBCleanupAssertionError(Exc("AssertionError", "b"), "b")
    /\ stopRet["c"] = None

----------------------------------------------------------------------------
(* Claims about the codec.                                                 *)

\* C23: for every schema and every instance v of it, the vector of
\* into_logicarray decodes to v, what from_signal reads after
\* write_to_signal is v, on a packed signal and field by field, and the
\* field signals taken together hold the bits of the packed vector: packed
\* in declaration order they are the vector, and the members of the vector
\* read field by field give what from_logicarray gives.
C23_RoundTrip ==
    (cd.kind = "value" /\ cd.pc \in {"raw", "signal", "done"}) =>
        /\ cd.pc = "done" => cd.out = Ok(cd.arg)
        /\ (cd.pc = "signal" /\ cd.how = "fields") =>
               Packed(cd.schema, cd.sig) = into_logicarray(cd.schema, cd.arg)
        /\ cd.pc = "raw" =>
               /\ Len(cd.sig) = bits(cd.schema)
               /\ from_signal_fields(cd.schema, Members(cd.schema, cd.sig))
                      = from_logicarray(cd.schema, cd.sig)

\* C23 witness: an instance of the nested schema whose fields all differ
\* went through the field signals and came back.
C23_Witness ==
    /\ cd.kind = "value" /\ cd.pc = "done" /\ cd.how = "fields"
    /\ cd.schema = Message /\ cd.arg = <<<<0, 1>>, 2>>
    /\ cd.out = Ok(cd.arg)

\* C24: from_logicarray of a vector whose length is not the width of the
\* schema, shorter or longer, raises.
C24_WidthMismatchFails ==
    (cd.kind = "raw" /\ cd.pc = "done" /\ Len(cd.arg) # bits(cd.schema)) =>
        ~cd.out.ok

\* C25: from_flat raises when a name of the mapping, at the top level or
\* nested, is of no field of the schema, and when a leaf of the schema is
\* not in the mapping; it returns only when the names are the leaves of the
\* schema and nothing else.
C25_FromFlatChecksNames ==
    (cd.kind = "flat" /\ cd.pc = "done") =>
        (cd.out.ok <=> DOMAIN cd.arg = Leaves(cd.schema))

\* C26 as stated: on one concatenated vector, element i is decoded from the
\* bits whose low bit is (array_length - i - 1) * element_bits, bit 0 being
\* the least significant: element 0 is the most significant element.
C26_Original ==
    (cd.kind = "array" /\ cd.pc = "done") =>
        LET eb == bits(cd.schema)
            n == Len(cd.arg.signal) \div eb
            low == (n - cd.arg.index - 1) * eb
        IN cd.out = Ok(from_logicarray(cd.schema,
                                       Slice(cd.arg.signal, low + eb - 1, low)))

\* C26 amended: (array_length - i - 1) * element_bits is the position of
\* the first bit of element i counted from the most significant end of the
\* vector, so element i is decoded from the bits whose low bit is
\* i * element_bits: element 0 is the least significant element.
C26_ElementZeroLeastSignificant ==
    (cd.kind = "array" /\ cd.pc = "done") =>
        LET eb == bits(cd.schema)
            low == cd.arg.index * eb
        IN cd.out = Ok(from_logicarray(cd.schema,
                                       Slice(cd.arg.signal, low + eb - 1, low)))

\* C26 witness: element 0 of a vector of two different elements was decoded
\* and is the element in the low bits.
C26_Witness ==
    /\ cd.kind = "array" /\ cd.pc = "done"
    /\ cd.schema = MessageMetadata
    /\ cd.arg = [signal |-> <<0, 1, 1, 0>>, index |-> 0]
    /\ cd.out = Ok(<<1, 0>>)

----------------------------------------------------------------------------
(* The order of the coroutines woken by one edge.                          *)

EdgeWoken == {"at_rise", "at_fall"}

\* What the step of the Producer woken by the edge, if it has not run yet,
\* makes of the pending writes p and of its own state.
ProducerOutcome(p) ==
    IF ppc = "at_rise"
    THEN [pend |-> ProducerSample(p, val, rdy), pq |-> pq, ppc |-> "wait_fall"]
    ELSE IF ppc = "at_fall" /\ ProducerLatches(val, penabled, pq)
    THEN [pend |-> Write(Write(p, "val", 1), "data",
                         write_to_signal(Message, Head(pq))),
          pq |-> Tail(pq), ppc |-> "wait_rise"]
    ELSE IF ppc = "at_fall"
    THEN [pend |-> p, pq |-> pq, ppc |-> "wait_rise"]
    ELSE [pend |-> p, pq |-> pq, ppc |-> ppc]

\* The same for the Consumer.
ConsumerOutcome(p) ==
    IF cpc = "at_rise"
    THEN LET q == IF ConsumerTakes(val, rdy)
                  THEN <<from_signal(Message, data)>> ELSE <<>>
         IN [pend |-> p, cq |-> cq \o q, got |-> got \o q,
             cSawFall |-> cSawFall, cpc |-> "wait_fall"]
    ELSE IF cpc = "at_fall"
    THEN [pend |-> Write(p, "rdy", ReadyValue(rdy_is_ack, val, can_consume)),
          cq |-> cq, got |-> got, cSawFall |-> ~cenabled, cpc |-> "wait_rise"]
    ELSE [pend |-> p, cq |-> cq, got |-> got, cSawFall |-> cSawFall,
          cpc |-> cpc]

\* The state of the interface once the agents woken by the edge have run,
\* the Producer first.
Settled ==
    LET P == ProducerOutcome(pend)
        C == ConsumerOutcome(P.pend)
    IN [pend |-> C.pend, pq |-> P.pq, ppc |-> P.ppc, cq |-> C.cq,
        got |-> C.got, cSawFall |-> C.cSawFall, cpc |-> C.cpc]

\* C27: whichever of the agents woken by an edge runs first, the state once
\* both have run is the same: the values the Consumer has enqueued, the
\* writes that the end of the time step applies, the queues.  And between
\* two clock edges the values of valid, ready and data, which every
\* observer woken by the edge samples, do not change.
C27_OrderIndependent ==
    /\ [][((ppc \in EdgeWoken /\ ppc' # ppc) \/ (cpc \in EdgeWoken /\ cpc' # cpc))
            => (clk' = clk /\ Settled' = Settled)]_vars
    /\ [][(AgentsReady /\ clk' = clk) => UNCHANGED <<val, rdy, data>>]_vars

\* C27 witness: of the two agents woken by a falling edge, the Consumer,
\* whose ready acknowledges valid, has run before the Producer, which is
\* about to present a value.
C27_Witness ==
    /\ ~clk /\ ppc = "at_fall" /\ cpc = "wait_rise"
    /\ rdy_is_ack /\ cenabled
    /\ ProducerLatches(val, penabled, pq)
    /\ "rdy" \in DOMAIN pend /\ pend["rdy"] = 0

----------------------------------------------------------------------------
(* Claims about the Monitor.                                               *)

\* Every coroutine woken in the current time step has run.
Quiet ==
    /\ ppc \notin Runnable /\ cpc \notin Runnable
    /\ \A o \in Agents : mon[o].pc \notin Runnable

\* C28: a Monitor logs exactly one decoded value for every rising edge at
\* which valid and ready are both 1 and nothing for any other edge, so that
\* once a time step is over each Monitor of the interface has logged as
\* many transfers as the Consumer has enqueued values.
C28_MonitorCountsTransfers ==
    Quiet => \A o \in Agents :
                 mon[o].pc # "off" => Len(mon[o].log) = Len(got)

\* The Monitor of agent o runs one iteration of its loop in this step.
MonitorStepped(o) == mon[o].pc = "at_rise" /\ mon'[o].pc = "wait_rise"

\* C29: every Producer and Consumer has exactly one Monitor, its only
\* child, and no iteration of a Monitor changes valid, ready or data, a
\* write to them that waits for the end of the time step, an agent's FIFO
\* or an agent's enabled flag.
C29_MonitorOnlyChildAndPassive ==
    /\ [](\A o \in Agents : /\ ValRdyDriver_subtasks(o) = <<Monitor(o)>>
                            /\ mon[o].pc # "off")
    /\ [][(\E o \in Agents : MonitorStepped(o))
              => UNCHANGED <<val, rdy, data, pend, pq, cq, penabled,
                             cenabled>>]_vars

\* C29 witness: at a rising edge with a transfer on the wire the Producer's
\* Monitor has run its iteration and logged it, the Consumer's has not yet.
C29_Witness ==
    /\ clk /\ val = 1 /\ rdy = 1
    /\ mon["producer"].pc = "wait_rise" /\ mon["consumer"].pc = "at_rise"
    /\ Len(mon["producer"].log) = Len(mon["consumer"].log) + 1

----------------------------------------------------------------------------
(* The order inside one TBTask.stop.                                       *)

\* Every task of a fixture, the children included.
AnyTask == {"clock"} \cup UNION {Subtree(t) : t \in TopIds}

\* stop() of task t is called, or runs its hook and returns, in this step.
StopBegins(t) == stopLog' = Append(stopLog, <<"begin", t>>)
StopEnds(t) ==
    /\ Len(stopLog') > Len(stopLog)
    /\ stopLog'[Len(stopLog')] = <<"end", t>>

StopLogged(kind, t) == <<kind, t>> \in Range(stopLog)

\* C30: inside stop() of a task p, the stop() of a child begins only when
\* p's own body has ended (joined or killed), when the stop() of every child
\* listed before it has returned and that of no child listed after it has
\* begun; on_test_finish of p runs, and stop() of p returns, only when p's
\* body has ended and the stop() of every child has returned.
C30_StopOrderWithinTask ==
    [][\A p \in AnyTask :
         /\ \A i \in 1..Len(subtasks(p)) :
              StopBegins(subtasks(p)[i]) =>
                /\ StopLogged("begin", p) /\ p \in ended
                /\ \A j \in 1..(i - 1) : StopLogged("end", subtasks(p)[j])
                /\ \A j \in i..Len(subtasks(p)) :
                       ~StopLogged("begin", subtasks(p)[j])
         /\ StopEnds(p) =>
                /\ p \in ended
                /\ \A c \in Range(subtasks(p)) : StopLogged("end", c)]_vars

\* C30 witness: the stop() of task a, which has two children and a
\* grandchild, has returned.
C30_Witness ==
    /\ StopLogged("end", "a")
    /\ Names(stopLog, "begin", Subtree("a")) = <<"a", "a1", "a11", "a2">>
    /\ Names(stopLog, "end", Subtree("a")) = <<"a11", "a1", "a2", "a">>

----------------------------------------------------------------------------
(* Claims about the clock.                                                 *)

\* C31: the edges a running FakeClock emits alternate between rising and
\* falling and are one half period apart, so that exactly one falling edge
\* lies between two consecutive rising edges; once stop has been requested
\* no edge is emitted.
C31_EdgesAlternate ==
    /\ [](\A i \in 1..(Len(fc.log) - 1) :
              /\ fc.log[i][1] # fc.log[i + 1][1]
              /\ fc.log[i + 1][2] - fc.log[i][2] = SemiPeriod(fc.period_ns))
    /\ [][fc.stop => fc'.log = fc.log]_vars

\* C31 witness: the clock has emitted two rising edges and is stopped.
C31_Witness ==
    /\ fc.pc = "ended" /\ fc.stop
    /\ Len(SelectSeq(fc.log, LAMBDA e : e[1] = "rising")) = 2

----------------------------------------------------------------------------
(* Claims about the construction.                                          *)

\* C32: once the fixture's constructor has registered the clock, and after
\* every add_task, each task that needs a clock in the tree of a registered
\* task, at whatever depth, has its clock attribute bound to the one clock
\* task of the fixture.
C32_ClockBoundInWholeTree ==
    tbpc # "init" =>
        /\ "tb" \in DOMAIN clock_of /\ clock_of["tb"] = "clock"
        /\ \A id \in Range(tasks) : \A t \in Subtree(id) :
               NeedsClock(t) => t \in DOMAIN clock_of /\ clock_of[t] = "clock"

\* C32 witness: a fixture is constructed with task a, whose first child needs
\* no clock and holds a grandchild that does.
C32_Witness ==
    /\ tbpc = "constructed" /\ "a" \in Range(tasks)
    /\ ~NeedsClock("a1") /\ "a1" \notin DOMAIN clock_of
    /\ "a11" \in DOMAIN clock_of /\ clock_of["a11"] = "clock"

----------------------------------------------------------------------------
(* Claims about what leaving the fixture raises.                           *)

\* The faults of the protected body inside the failure f.
BodyFaults(f) == {x \in Range(f.excs) : x.what = "body"}

\* C33: a body exception inside the TBFailure that leaving the fixture
\* raises carries the note 'Raised in TB body'; it carries the note
\* 'CRITICAL' as well if and only if it is not an assertion error.
C33_BodyFaultNotes ==
    (tbpc = "exited" /\ result.kind = "raised" /\ result.exc.cls = "TBFailure")
        => \A x \in BodyFaults(result.exc) :
               /\ <<"Raised in TB body", "">> \in Range(x.notes)
               /\ <<"CRITICAL", "">> \in Range(x.notes)
                      <=> x.cls # "AssertionError"

\* C33 witness: the body failed an assertion, a task's stop() yielded a
\* fault too, and the fixture has raised its TBFailure.
C33_Witness ==
    /\ tbpc = "exited" /\ result.kind = "raised"
    /\ result.exc.cls = "TBFailure"
    /\ Len(result.exc.excs) = 2
    /\ \E x \in BodyFaults(result.exc) : x.cls = "AssertionError"

----------------------------------------------------------------------------
(* Claims about the edge helpers.                                          *)

\* The edges, among the count edges of the call, after which the assertion
\* is false.
FalseEdges == {n \in 1..hold.count : ~hold.assertion[n]}

\* C34: RisingEdgesHoldingAssertion(count, p) evaluates p after each rising
\* edge it waits for.  It returns, having waited for count edges, if and
\* only if p held after each of them; otherwise it raises an AssertionError
\* at the first edge after which p is false and waits for no edge more.
C34_HoldingAssertion ==
    /\ hold.pc \in {"loop", "assert", "done"} =>
           \* so far p was evaluated once after each edge, and held
           /\ hold.i \in {hold.edges, hold.edges - 1}
           /\ \A n \in 1..hold.i : hold.assertion[n]
    /\ hold.pc = "done" =>
           /\ hold.out = Returned <=> FalseEdges = {}
           /\ hold.out = Returned => hold.edges = hold.count
           /\ FalseEdges # {} =>
                  /\ hold.out.kind = "raised"
                  /\ hold.out.exc.cls = "AssertionError"
                  /\ hold.edges \in FalseEdges
                  /\ \A n \in FalseEdges : hold.edges <= n

\* C34 witness: a call for three edges has failed at the second.
C34_Witness ==
    /\ hold.pc = "done" /\ hold.count = 3
    /\ hold.out.kind = "raised" /\ hold.edges = 2
    /\ hold.assertion[1] /\ ~hold.assertion[2]

----------------------------------------------------------------------------
(* Claims about the values of a Producer that is stopped.                  *)

\* C35: a value enqueued on a Producer is transferred, exactly once, or
\* makes the Producer's stop() return the drained-queue fault.  Once stop()
\* has been requested the Producer takes no item out of its FIFO; and a
\* stop() that finds an item in the FIFO, or a value latched with valid
\* asserted that no ready has met, returns a fault.
C35_NoValueLostAtStop ==
    [][/\ stop_is_set("producer") => Len(pq') >= Len(pq)
       /\ (StopReturns("producer") /\ (pq # <<>> \/ (val = 1 /\ rdy = 0))) =>
              stopRet'["producer"] # None]_vars

----------------------------------------------------------------------------
(* Claims about disabled() scopes held by different coroutines.            *)

\* C36: with disabled() scopes on one agent that overlap without being
\* nested, the agent's enabled flag is false for as long as a scope is
\* open, and once every scope is left it has the value it had before the
\* first was entered, which is true for an agent built enabled.
C36_OverlappingScopes ==
    /\ pscopes # <<>> => ~penabled
    /\ cscopes # <<>> => ~cenabled
    /\ pscopes = <<>> => penabled
    /\ cscopes = <<>> => cenabled

----------------------------------------------------------------------------
(* Claims about the faults that stop() of a tree collects.                 *)

\* The exceptions that the hooks raised, out of what a stop() returned:
\* the aggregates and the wrappers are opened.
RECURSIVE Flatten(_)
Flatten(e) ==
    IF e = None THEN <<>>
    ELSE IF e.excs = <<>> THEN <<e>>
    ELSE LET F[i \in 0..Len(e.excs)] ==
                 IF i = 0 THEN <<>> ELSE F[i - 1] \o Flatten(e.excs[i])
         IN F[Len(e.excs)]

\* The runs of on_test_finish of task t so far, and the outcome h of each.
HookRuns(t) ==
    SelectSeq(stopLog, LAMBDA ev : ev[1] = "hook" /\ ev[2] = t)

HookFailed(t) == \E i \in DOMAIN HookRuns(t) : HookRuns(t)[i][3] # "pass"

\* The stop() of the top-level task root is over: it returned or raised.
RootStopOver(root) ==
    /\ <<"begin", root>> \in Range(stopLog)
    /\ root \in DOMAIN stopRet \/ tbpc = "exited"

\* stop() of root returned, and what it returned is right.
RootStopSound(root) ==
    /\ root \in DOMAIN stopRet
    /\ \A t \in Subtree(root) : Len(HookRuns(t)) = 1
    /\ stopRet[root] = None <=> \A t \in Subtree(root) : ~HookFailed(t)
    /\ LET faults == Flatten(stopRet[root])
       IN /\ \A i, j \in DOMAIN faults :
                 faults[i].what = faults[j].what => i = j
          /\ {faults[i].what : i \in DOMAIN faults} =
                 {t \in Subtree(root) : HookFailed(t)}

\* C37: stop() of the root of a task tree runs on_test_finish of every task
\* of the tree exactly once; it returns no fault if and only if no hook of
\* the tree failed, and otherwise what it returns holds, once the
\* aggregates are opened, exactly one fault for each hook that failed.
C37_OneFaultPerFailedHook ==
    \A root \in Range(tasks) : RootStopOver(root) => RootStopSound(root)

----------------------------------------------------------------------------
(* Claims about how long a cooperative stop() of an agent takes.           *)

AgentPc(t) == IF t = "producer" THEN ppc ELSE cpc

\* stop() of agent t has been called and has not returned.
StopPending(t) == stop_is_set(t) /\ t \notin DOMAIN stopRet

\* The clock edges an agent asked to stop still waits for before its body
\* ends, by the place where its body is and the level of the clock.
EdgesLeft(pc, level) ==
    CASE pc = "wait_rise" -> 1
      [] pc = "at_fall" -> 1
      [] pc = "wait_fall" /\ level -> 2
      [] pc = "wait_fall" /\ ~level -> 3
      [] OTHER -> 0

EdgesLeftOf(t) == EdgesLeft(AgentPc(t), clk)

\* With the clock running, a stop() that was requested returns; each clock
\* edge brings it one edge nearer, nothing else changes the distance, and
\* it returns when no edge is left.
StopTerminates ==
    /\ \A t \in Agents :
           (StopPending(t) /\ "clock" \notin ended)
               ~> (t \in DOMAIN stopRet)
    /\ [][\A t \in Agents :
            /\ (StopPending(t) /\ StopPending(t)') =>
                   EdgesLeftOf(t)' =
                       EdgesLeftOf(t) - (IF clk' # clk THEN 1 ELSE 0)
            /\ StopReturns(t) => EdgesLeftOf(t) = 0]_vars

\* With the clock stopped, an agent that waits for a falling edge stays
\* there and its stop() does not return.
StopHangsWithoutClock ==
    [][\A t \in Agents :
         ("clock" \in ended /\ AgentPc(t) = "wait_fall") =>
             /\ "clock" \in ended' /\ AgentPc(t)' = "wait_fall"
             /\ t \notin DOMAIN stopRet']_vars

\* stop() of agent t is requested in this step.
StopRequested(t) == ~stop_is_set(t) /\ stop_is_set(t)'

\* C38 as stated: while the clock runs, a cooperative stop() of a Producer
\* or a Consumer, requested at any point of its cycle, returns within one
\* clock period, that is two edges; with the clock stopped and the agent
\* waiting for a falling edge it never returns.
C38_Original ==
    /\ StopTerminates
    /\ [][\A t \in Agents : StopRequested(t) => EdgesLeftOf(t)' <= 2]_vars
    /\ StopHangsWithoutClock

\* C38 amended: the same, but the stop() returns within one and a half
\* clock periods, that is three edges; within one period if it is requested
\* while the clock is high.  An agent that has not yet seen a falling edge
\* waits for one while the clock is low.
C38_StopWithinOneAndAHalfPeriods ==
    /\ StopTerminates
    /\ [][\A t \in Agents :
            StopRequested(t) =>
                /\ EdgesLeftOf(t)' <= 3
                /\ clk' => EdgesLeftOf(t)' <= 2]_vars
    /\ StopHangsWithoutClock

\* C38 witness: stop() of the Producer was requested while its body waits
\* for its first falling edge and the clock is low: three edges are left.
C38_Witness ==
    /\ StopPending("producer") /\ "clock" \notin ended
    /\ ppc = "wait_fall" /\ ~clk

----------------------------------------------------------------------------
(* Claims about the enter sequence after a failed start().                 *)

\* The loop of __aenter__ calls start() of top-level task id in this step.
StartAttempted(id) ==
    /\ tbpc = "entering" /\ stack = <<>>
    /\ Len(stack') = 1 /\ stack'[1].op = "start" /\ stack'[1].task = id

\* The loop of __aenter__ is over.
EnterLoopOver ==
    /\ tbpc \in {"body", "enter_failed"}
    /\ setup_exceptions # <<Exc("Exception", "reset")>>

\* C39: in the enter sequence the top-level tasks are attempted one at a
\* time in registration order, the clock first, each once, whether or not
\* an earlier start() failed: the loop moves to the next registered task
\* only by attempting the current one, a failed start() leaves the loop
\* where it is, and when the loop is over every registered task has had its
\* attempt.
C39_EveryTopLevelStartAttempted ==
    /\ [](tbpc # "off" /\ tasks # <<>> => tasks[1] = "clock")
    /\ [][tbpc = "entering" =>
            /\ \A id \in AnyTask :
                   StartAttempted(id) =>
                       /\ cursor <= Len(tasks) /\ id = tasks[cursor]
                       /\ cursor' = cursor + 1
            /\ cursor' # cursor => \E id \in AnyTask : StartAttempted(id)
            /\ Len(startLog') > Len(startLog)
                   /\ startLog'[Len(startLog')][1] = "failed"
                   => cursor' = cursor /\ tbpc' = "entering"]_vars
    /\ [](EnterLoopOver => cursor = Len(tasks) + 1)

\* C39 witness: the enter sequence is over, a start() failed, and the body
\* of a top-level task registered later was started after that failure.
C39_Witness ==
    /\ EnterLoopOver
    /\ \E i \in DOMAIN startLog : \E j \in DOMAIN startLog :
           /\ i < j /\ startLog[i][1] = "failed"
           /\ startLog[j][1] = "started" /\ startLog[j][2] \in Range(tasks)

----------------------------------------------------------------------------
(* Claims about what a disabled Producer still does.                       *)

\* C40: entering or leaving a disabled() scope of the Producer changes
\* neither valid, nor the data, nor the writes waiting to be applied, nor
\* its FIFO.  While the Producer is disabled nothing is taken from its FIFO
\* and no write of 1 to valid is made; a beat it presents is still
\* transferred: at a rising edge with valid and ready at 1 the Consumer
\* takes the data and the Producer writes 0 to valid, and valid is written
\* to 0 in no other case.  Enabled, with valid at 0 and an item queued, its
\* falling-edge step latches the item.
C40_DisabledProducerKeepsBeat ==
    [][/\ pscopes' # pscopes => UNCHANGED <<val, data, pend, pq>>
       /\ ~penabled =>
              /\ Len(pq') >= Len(pq)
              /\ PendingVal(pend', 1) => PendingVal(pend, 1)
              /\ (PendingVal(pend', 0) /\ ~PendingVal(pend, 0)) =>
                     ppc = "at_rise" /\ val = 1 /\ rdy = 1
              /\ (ppc = "at_rise" /\ ppc' # ppc /\ val = 1 /\ rdy = 1) =>
                     PendingVal(pend', 0)
              /\ (cpc = "at_rise" /\ cpc' # cpc /\ val = 1 /\ rdy = 1) =>
                     got' = Append(got, from_signal(Message, data))
       /\ (penabled /\ ppc = "at_fall" /\ ppc' # ppc /\ val = 0 /\ pq # <<>>)
              => pq' = Tail(pq) /\ PendingVal(pend', 1)]_vars

\* C40 witness: inside a disabled() scope the Producer, which presents a
\* beat and has a further item queued, has seen the transfer of the beat at
\* a rising edge and written 0 to valid; the Consumer has taken the value.
C40_Witness ==
    /\ pscopes # <<>> /\ ~penabled
    /\ clk /\ val = 1 /\ rdy = 1
    /\ ppc = "wait_fall" /\ PendingVal(pend, 0)
    /\ cpc = "wait_fall"
    /\ Len(sent) = 2 /\ got = <<sent[1]>> /\ pq = <<sent[2]>>

====
